---- MODULE Spec2Model ----
(***************************************************************************)
(* ReactiveTwitter: the bounded multi-indexed message store of             *)
(* src/src/ReactiveTwitter.sol as a state machine.  Every external         *)
(* function of the contract is one action.  A transaction that hits a      *)
(* failed require (or a checked-arithmetic panic) reverts and leaves no    *)
(* trace in storage, so the requires are the action's guard: each function *)
(* has a ...Check operator that gives "ok" or the revert reason, in the    *)
(* order the source tests them.  The observer variable `last` keeps what   *)
(* deleteOldestMessages did in the last transaction.                       *)
(*                                                                         *)
(* The API server of src/unnamed/part_003 reads the contract and listens   *)
(* to its notifications: its cache, the HTTP requests it is serving and    *)
(* the notifications on their way to it are part of the state.  Node runs  *)
(* one callback at a time, so every stretch of a handler between two       *)
(* awaits is one action.                                                   *)
(*                                                                         *)
(* Strings (nicknames, avatar codes, message bodies) are sequences of      *)
(* byte codes, so that bytes(s).length is Len(s) and the character test    *)
(* of _validateNickname is computed as the code computes it.               *)
(***************************************************************************)
EXTENDS Integers, Sequences, FiniteSets, TLC

\* ------------------------------------------------------------------ bounds
\* Records that may be created on top of those the initial state holds.
MaxNewMessages == 3
\* block.timestamp of the initial state, and how far it may advance.
StartTime == 1
MaxTicks == 1
\* PERIOD_SIZE is 100 in the source.  The store reads it only in
\* messageId / PERIOD_SIZE, so the model takes a small period: the ids of
\* MaxNewMessages records then cross a period boundary.
PERIOD_SIZE == 2
\* type(uint256).max, with the word scaled from 256 to 16 bits: the checked
\* product page * pageSize of getMessagesWithPagination reverts above it.
MaxUint == 65535
\* Notifications the contract emits while the server listens, HTTP requests
\* the server may be serving at one time, and the query results that are
\* cached or on their way to the cache at one time.
MaxEvents == 4
MaxInFlight == 1
MaxCached == 2

\* ------------------------------------------------------- program constants
MaxNicknameLength == 32
InitMaxMessageLength == 768
InitMessageCooldown == 60
InitMaxReturnCount == 50
InitMaxActiveMessages == 500

\* address(0), and the externally owned accounts that send transactions.
NullAddress == 0
Deployer == 1
Addresses == {1, 2}
AllAddresses == {NullAddress} \cup Addresses

\* ------------------------------------------------------------------ inputs
EmptyString == << >>
NickA == <<97>>
NickB == <<98, 95, 49>>
NickBad == <<97, 45>>
NickLong == << >> \o [i \in 1..(MaxNicknameLength + 1) |-> 97]
Nicknames == {EmptyString, NickA, NickB, NickBad, NickLong}
AvatarCodes == {EmptyString, <<120>>}
ContentShort == <<104>>
ContentLong == << >> \o [i \in 1..(InitMaxMessageLength + 1) |-> 104]
Contents == {EmptyString, ContentShort, ContentLong}
\* The bodies some parameter setting of the model accepts.
AcceptedContents == {c \in Contents : Len(c) > 0 /\ Len(c) <= InitMaxMessageLength}
MaxId == MaxNewMessages
Periods == 0..(MaxId \div PERIOD_SIZE)

VARIABLES
    owner, maxMessageLength, messageCooldown, maxReturnCount, maxActiveMessages,
    messages, messageCount,
    messageIdsByPeriod, activeMessageCountByPeriod, periods, periodExists,
    senderToMessageIds, activeSenderMessageCount,
    messageReplies, activeReplyCount,
    nicknameToAddress, addressToProfile, lastMessageTime,
    totalActiveMessages, chronologicalMessageIds, messageIdToChronologicalIndex,
    now, last,
    cache, requests, log, handled

paramVars == <<maxMessageLength, messageCooldown, maxReturnCount, maxActiveMessages>>
profileVars == <<nicknameToAddress, addressToProfile>>
indexVars == <<messageIdsByPeriod, periods, periodExists, senderToMessageIds,
               messageReplies, chronologicalMessageIds, messageIdToChronologicalIndex>>
counterVars == <<activeMessageCountByPeriod, activeSenderMessageCount,
                 activeReplyCount, totalActiveMessages>>
recordVars == <<messages, messageCount>>
storeVars == <<owner, paramVars, profileVars, indexVars, counterVars, recordVars,
               lastMessageTime>>
serverVars == <<cache, requests, log, handled>>
vars == <<storeVars, now, last, serverVars>>

\* The zero value of struct Message (what a mapping holds for an unwritten key).
ZeroMessage ==
    [sender |-> NullAddress, content |-> EmptyString, timestamp |-> 0,
     nickname |-> EmptyString, replyToMessageId |-> 0, isDeleted |-> FALSE]

\* The zero value of struct UserProfile.
ZeroProfile ==
    [nickname |-> EmptyString, avatarCode |-> EmptyString, isActive |-> FALSE,
     lastNicknameUpdate |-> 0]

\* messages[id] of the mapping: the zero struct for a key never written.
Msg(id) == IF id \in DOMAIN messages THEN messages[id] ELSE ZeroMessage

\* What the observer keeps of the last transaction: the ids that
\* deleteOldestMessages soft-deleted, in the order it did, and the counts of
\* the OldMessagesDeleted events emitted.
Outcome(evicted, pruned) == [evicted |-> evicted, pruned |-> pruned]
NoEviction == Outcome(<< >>, << >>)

\* ------------------------------------------------------- Profile Directory

\* Only 0-9, A-Z, a-z and _ pass.
_validateNickname(nickname) ==
    \A i \in 1..Len(nickname) :
        LET char == nickname[i] IN
            \/ (char >= 48 /\ char <= 57)
            \/ (char >= 65 /\ char <= 90)
            \/ (char >= 97 /\ char <= 122)
            \/ char = 95

\* Mutant of UpdateProfileCheck: the test for a nickname held by another
\* account is missing.
UpdateProfileCheck_noTakenTest(sender, nickname) ==
    IF ~(Len(nickname) > 0) THEN "Nickname cannot be empty"
    ELSE IF ~(Len(nickname) <= MaxNicknameLength) THEN "Nickname too long"
    ELSE IF ~_validateNickname(nickname) THEN "Nickname contains invalid characters"
    ELSE "ok"

\* The requires of updateProfile in source order: "ok" or the revert reason.
UpdateProfileCheck(sender, nickname) ==
    IF ~(Len(nickname) > 0) THEN "Nickname cannot be empty"
    ELSE IF ~(Len(nickname) <= MaxNicknameLength) THEN "Nickname too long"
    ELSE IF ~_validateNickname(nickname) THEN "Nickname contains invalid characters"
    ELSE IF nicknameToAddress[nickname] # NullAddress
            /\ nicknameToAddress[nickname] # sender THEN "Nickname already taken"
    ELSE "ok"

\* Mutant of CleanUpOldNickname: the old directory entry is left in place.
CleanUpOldNickname_keepsEntry(sender) == nicknameToAddress

\* The directory after updateProfile's clean-up of the caller's old nickname.
CleanUpOldNickname(sender) ==
    LET old == addressToProfile[sender].nickname IN
        IF Len(old) > 0 /\ nicknameToAddress[old] = sender
        THEN [nicknameToAddress EXCEPT ![old] = NullAddress]
        ELSE nicknameToAddress

updateProfile(sender, nickname, avatarCode) ==
    /\ UpdateProfileCheck(sender, nickname) = "ok"
    /\ nicknameToAddress' = [CleanUpOldNickname(sender) EXCEPT ![nickname] = sender]
    /\ addressToProfile' = [addressToProfile EXCEPT ![sender] =
           [nickname |-> nickname, avatarCode |-> avatarCode, isActive |-> TRUE,
            lastNicknameUpdate |-> now]]
    /\ last' = NoEviction
    /\ UNCHANGED <<owner, paramVars, indexVars, counterVars, recordVars,
                   lastMessageTime, now>>

UpdateAvatarCheck(sender) ==
    IF ~(Len(addressToProfile[sender].nickname) > 0) THEN "Set nickname first"
    ELSE "ok"

\* Mutant of updateAvatar: the profile is switched on again, as updateProfile
\* does.
updateAvatar_reactivates(sender, avatarCode) ==
    /\ Len(addressToProfile[sender].nickname) > 0
    /\ addressToProfile' = [addressToProfile EXCEPT
           ![sender].avatarCode = avatarCode, ![sender].isActive = TRUE]
    /\ last' = NoEviction
    /\ UNCHANGED <<owner, paramVars, nicknameToAddress, indexVars, counterVars,
                   recordVars, lastMessageTime, now>>

updateAvatar(sender, avatarCode) ==
    /\ UpdateAvatarCheck(sender) = "ok"
    /\ addressToProfile' = [addressToProfile EXCEPT ![sender].avatarCode = avatarCode]
    /\ last' = NoEviction
    /\ UNCHANGED <<owner, paramVars, nicknameToAddress, indexVars, counterVars,
                   recordVars, lastMessageTime, now>>

\* Mutant of deactivateProfile: the directory entry is not freed.
deactivateProfile_keepsEntry(sender) ==
    /\ Len(addressToProfile[sender].nickname) > 0
    /\ addressToProfile' = [addressToProfile EXCEPT ![sender].isActive = FALSE]
    /\ last' = NoEviction
    /\ UNCHANGED <<owner, paramVars, nicknameToAddress, indexVars, counterVars,
                   recordVars, lastMessageTime, now>>

DeactivateProfileCheck(sender) ==
    IF ~(Len(addressToProfile[sender].nickname) > 0) THEN "Profile not found"
    ELSE "ok"

deactivateProfile(sender) ==
    LET currentNickname == addressToProfile[sender].nickname IN
    /\ DeactivateProfileCheck(sender) = "ok"
    /\ nicknameToAddress' =
           IF nicknameToAddress[currentNickname] = sender
           THEN [nicknameToAddress EXCEPT ![currentNickname] = NullAddress]
           ELSE nicknameToAddress
    /\ addressToProfile' = [addressToProfile EXCEPT ![sender].isActive = FALSE]
    /\ last' = NoEviction
    /\ UNCHANGED <<owner, paramVars, indexVars, counterVars, recordVars,
                   lastMessageTime, now>>

getAddressByNickname(nickname) == nicknameToAddress[nickname]

\* --------------------------------------------------------- Eviction Engine

\* The part of storage _markMessageAsDeleted and deleteOldestMessages write,
\* threaded through them; panic is set by a checked decrement of 0
\* (Solidity ^0.8), which reverts the whole transaction.
Working ==
    [messages |-> messages,
     activeMessageCountByPeriod |-> activeMessageCountByPeriod,
     activeSenderMessageCount |-> activeSenderMessageCount,
     activeReplyCount |-> activeReplyCount,
     totalActiveMessages |-> totalActiveMessages,
     panic |-> FALSE, evicted |-> << >>, pruned |-> << >>]

\* x-- under checked arithmetic.
Decrement(x) == IF x = 0 THEN 0 ELSE x - 1

\* Mutant of _markMessageAsDeleted: the sender's active count is not decremented.
_markMessageAsDeleted_keepsSenderCount(s, messageId) ==
    IF s.messages[messageId].isDeleted THEN s
    ELSE
        LET period == messageId \div PERIOD_SIZE
            parent == s.messages[messageId].replyToMessageId
        IN  [s EXCEPT
                !.messages[messageId].isDeleted = TRUE,
                !.activeMessageCountByPeriod[period] =
                    IF periodExists[period] THEN Decrement(@) ELSE @,
                !.activeReplyCount =
                    IF parent # 0 THEN [@ EXCEPT ![parent] = Decrement(@)] ELSE @,
                !.totalActiveMessages = Decrement(@)]

\* Mutant of _markMessageAsDeleted: a hard delete, the body is wiped too.
_markMessageAsDeleted_wipesContent(s, messageId) ==
    IF s.messages[messageId].isDeleted THEN s
    ELSE
        LET period == messageId \div PERIOD_SIZE
            sender == s.messages[messageId].sender
            parent == s.messages[messageId].replyToMessageId
        IN  [s EXCEPT
                !.messages[messageId].isDeleted = TRUE,
                !.messages[messageId].content = EmptyString,
                !.activeMessageCountByPeriod[period] =
                    IF periodExists[period] THEN Decrement(@) ELSE @,
                !.activeSenderMessageCount[sender] = Decrement(@),
                !.activeReplyCount =
                    IF parent # 0 THEN [@ EXCEPT ![parent] = Decrement(@)] ELSE @,
                !.totalActiveMessages = Decrement(@)]

_markMessageAsDeleted(s, messageId) ==
    IF s.messages[messageId].isDeleted THEN s
    ELSE
        LET period == messageId \div PERIOD_SIZE
            sender == s.messages[messageId].sender
            parent == s.messages[messageId].replyToMessageId
        IN  [s EXCEPT
                !.messages[messageId].isDeleted = TRUE,
                !.activeMessageCountByPeriod[period] =
                    IF periodExists[period] THEN Decrement(@) ELSE @,
                !.activeSenderMessageCount[sender] = Decrement(@),
                !.activeReplyCount =
                    IF parent # 0 THEN [@ EXCEPT ![parent] = Decrement(@)] ELSE @,
                !.totalActiveMessages = Decrement(@),
                !.panic = \/ @
                          \/ (periodExists[period]
                              /\ s.activeMessageCountByPeriod[period] = 0)
                          \/ s.activeSenderMessageCount[sender] = 0
                          \/ (parent # 0 /\ s.activeReplyCount[parent] = 0)
                          \/ s.totalActiveMessages = 0]

\* Mutant of DeleteLoop: replies are deleted like top-level records.
RECURSIVE DeleteLoop_takesReplies(_, _, _, _)
DeleteLoop_takesReplies(s, i, deletedCount, maxToDelete) ==
    IF ~(i < Len(chronologicalMessageIds) /\ deletedCount < maxToDelete)
    THEN [s EXCEPT !.pruned = IF deletedCount > 0 THEN Append(@, deletedCount) ELSE @]
    ELSE
        LET messageId == chronologicalMessageIds[i + 1]
            hit == ~s.messages[messageId].isDeleted
            s1 == IF hit
                  THEN [_markMessageAsDeleted(s, messageId) EXCEPT
                            !.evicted = Append(@, messageId)]
                  ELSE s
            d1 == IF hit THEN deletedCount + 1 ELSE deletedCount
        IN  IF d1 >= maxToDelete
            THEN [s1 EXCEPT !.pruned = IF d1 > 0 THEN Append(@, d1) ELSE @]
            ELSE DeleteLoop_takesReplies(s1, i + 1, d1, maxToDelete)


\* Mutant of DeleteLoop: the event carries the requested count.
RECURSIVE DeleteLoop_reportsRequested(_, _, _, _)
DeleteLoop_reportsRequested(s, i, deletedCount, maxToDelete) ==
    IF ~(i < Len(chronologicalMessageIds) /\ deletedCount < maxToDelete)
    THEN [s EXCEPT !.pruned = IF deletedCount > 0 THEN Append(@, maxToDelete) ELSE @]
    ELSE
        LET messageId == chronologicalMessageIds[i + 1]
            hit == /\ ~s.messages[messageId].isDeleted
                   /\ s.messages[messageId].replyToMessageId = 0
            s1 == IF hit
                  THEN [_markMessageAsDeleted(s, messageId) EXCEPT
                            !.evicted = Append(@, messageId)]
                  ELSE s
            d1 == IF hit THEN deletedCount + 1 ELSE deletedCount
        IN  IF d1 >= maxToDelete
            THEN [s1 EXCEPT !.pruned = IF d1 > 0 THEN Append(@, maxToDelete) ELSE @]
            ELSE DeleteLoop_reportsRequested(s1, i + 1, d1, maxToDelete)

\* The for loop of deleteOldestMessages from (0-based) position i on.
RECURSIVE DeleteLoop(_, _, _, _)
DeleteLoop(s, i, deletedCount, maxToDelete) ==
    IF ~(i < Len(chronologicalMessageIds) /\ deletedCount < maxToDelete)
    THEN [s EXCEPT !.pruned = IF deletedCount > 0 THEN Append(@, deletedCount) ELSE @]
    ELSE
        LET messageId == chronologicalMessageIds[i + 1]
            hit == /\ ~s.messages[messageId].isDeleted
                   /\ s.messages[messageId].replyToMessageId = 0
            s1 == IF hit
                  THEN [_markMessageAsDeleted(s, messageId) EXCEPT
                            !.evicted = Append(@, messageId)]
                  ELSE s
            d1 == IF hit THEN deletedCount + 1 ELSE deletedCount
        IN  IF d1 >= maxToDelete
            THEN [s1 EXCEPT !.pruned = IF d1 > 0 THEN Append(@, d1) ELSE @]
            ELSE DeleteLoop(s1, i + 1, d1, maxToDelete)

\* Mutant of deleteOldestMessages: the scan starts one position too late.
deleteOldestMessages_skipsOldest(s, count) ==
    IF count = 0 \/ s.totalActiveMessages = 0 THEN s
    ELSE
        LET maxToDelete == IF count < s.totalActiveMessages
                           THEN count ELSE s.totalActiveMessages
        IN  DeleteLoop(s, 2, 0, maxToDelete)

deleteOldestMessages(s, count) ==
    IF count = 0 \/ s.totalActiveMessages = 0 THEN s
    ELSE
        LET maxToDelete == IF count < s.totalActiveMessages
                           THEN count ELSE s.totalActiveMessages
        IN  DeleteLoop(s, 1, 0, maxToDelete)


\* How many entries of chronologicalMessageIds the for loop of
\* deleteOldestMessages reads from (0-based) position i on.  The loop only
\* moves forward, so the flags it has set lie behind i and the test of an
\* entry reads the flag the call started with.
RECURSIVE ScanLoop(_, _, _)
ScanLoop(i, deletedCount, maxToDelete) ==
    IF ~(i < Len(chronologicalMessageIds) /\ deletedCount < maxToDelete) THEN 0
    ELSE
        LET messageId == chronologicalMessageIds[i + 1]
            hit == /\ ~messages[messageId].isDeleted
                   /\ messages[messageId].replyToMessageId = 0
            d1 == IF hit THEN deletedCount + 1 ELSE deletedCount
        IN  IF d1 >= maxToDelete THEN 1
            ELSE 1 + ScanLoop(i + 1, d1, maxToDelete)

\* The entries deleteOldestMessages(count) reads in the current state.
EntriesScanned(count) ==
    IF count = 0 \/ totalActiveMessages = 0 THEN 0
    ELSE ScanLoop(1, 0, IF count < totalActiveMessages
                        THEN count ELSE totalActiveMessages)

\* Storage written back from a Working record.
Commit(s) ==
    /\ messages' = s.messages
    /\ activeMessageCountByPeriod' = s.activeMessageCountByPeriod
    /\ activeSenderMessageCount' = s.activeSenderMessageCount
    /\ activeReplyCount' = s.activeReplyCount
    /\ totalActiveMessages' = s.totalActiveMessages

\* ------------------------------------------------ Record Table, write path

\* Ids a transaction may name: every existing id and the first that does not
\* exist yet.
TargetIds == 0..messageCount

\* Mutant of CreateCheck: the profile is tested before the body and the clock.
CreateCheck_profileFirst(sender, content) ==
    IF ~(Len(addressToProfile[sender].nickname) > 0) THEN "Create a profile first"
    ELSE IF ~addressToProfile[sender].isActive THEN "Profile is deactivated"
    ELSE IF ~(Len(content) > 0) THEN "Message cannot be empty"
    ELSE IF ~(Len(content) <= maxMessageLength) THEN "Message too long"
    ELSE IF now < lastMessageTime[sender] THEN "Panic(0x11)"
    ELSE IF ~(now - lastMessageTime[sender] >= messageCooldown)
         THEN "Please wait before posting again"
    ELSE "ok"

\* Mutant of CreateCheck: the cooldown is not tested.
CreateCheck_noCooldown(sender, content) ==
    IF ~(Len(content) > 0) THEN "Message cannot be empty"
    ELSE IF ~(Len(content) <= maxMessageLength) THEN "Message too long"
    ELSE IF ~(Len(addressToProfile[sender].nickname) > 0) THEN "Create a profile first"
    ELSE IF ~addressToProfile[sender].isActive THEN "Profile is deactivated"
    ELSE "ok"


\* Mutant of CreateCheck: a deactivated profile may still write.
CreateCheck_noActiveTest(sender, content) ==
    IF ~(Len(content) > 0) THEN "Message cannot be empty"
    ELSE IF ~(Len(content) <= maxMessageLength) THEN "Message too long"
    ELSE IF now < lastMessageTime[sender] THEN "Panic(0x11)"
    ELSE IF ~(now - lastMessageTime[sender] >= messageCooldown)
         THEN "Please wait before posting again"
    ELSE IF ~(Len(addressToProfile[sender].nickname) > 0) THEN "Create a profile first"
    ELSE "ok"

\* The requires shared by postMessage and replyToMessage, in source order.
\* block.timestamp - lastMessageTime is a checked subtraction.
CreateCheck(sender, content) ==
    IF ~(Len(content) > 0) THEN "Message cannot be empty"
    ELSE IF ~(Len(content) <= maxMessageLength) THEN "Message too long"
    ELSE IF now < lastMessageTime[sender] THEN "Panic(0x11)"
    ELSE IF ~(now - lastMessageTime[sender] >= messageCooldown)
         THEN "Please wait before posting again"
    ELSE IF ~(Len(addressToProfile[sender].nickname) > 0) THEN "Create a profile first"
    ELSE IF ~addressToProfile[sender].isActive THEN "Profile is deactivated"
    ELSE "ok"

PostMessageCheck(sender, content) == CreateCheck(sender, content)

\* Mutant of ReplyToMessageCheck: the parent is not tested.
ReplyToMessageCheck_noParentTest(sender, replyToMessageId, content) ==
    CreateCheck(sender, content)


\* Mutant of ReplyToMessageCheck: a soft-deleted parent is refused.
ReplyToMessageCheck_refusesDeletedParent(sender, replyToMessageId, content) ==
    IF ~(replyToMessageId < messageCount) THEN "Original message does not exist"
    ELSE IF messages[replyToMessageId].isDeleted THEN "Original message does not exist"
    ELSE CreateCheck(sender, content)

ReplyToMessageCheck(sender, replyToMessageId, content) ==
    IF ~(replyToMessageId < messageCount) THEN "Original message does not exist"
    ELSE CreateCheck(sender, content)




\* Mutant of EvictBeforeCreate: a create never evicts.
EvictBeforeCreate_never == Working

\* Mutant of EvictBeforeCreate: the eviction runs only once the total has
\* passed the capacity.
EvictBeforeCreate_lateTest ==
    IF totalActiveMessages > maxActiveMessages
    THEN deleteOldestMessages(Working, 1) ELSE Working

\* Mutant of EvictBeforeCreate: two slots are freed instead of one.
EvictBeforeCreate_freesTwo ==
    IF totalActiveMessages >= maxActiveMessages
    THEN deleteOldestMessages(Working, 2) ELSE Working

\* if (totalActiveMessages >= maxActiveMessages) deleteOldestMessages(1);
EvictBeforeCreate ==
    IF totalActiveMessages >= maxActiveMessages
    THEN deleteOldestMessages(Working, 1) ELSE Working

\* Mutant of StoreNewMessage: messageCount is not incremented.
StoreNewMessage_keepsCount(s, messageId, sender, content, replyToMessageId) ==
    LET period == messageId \div PERIOD_SIZE IN
    /\ messageCount' = messageCount
    /\ messages' = [i \in 0..messageId |->
           IF i = messageId
           THEN [sender |-> sender, content |-> content, timestamp |-> now,
                 nickname |-> addressToProfile[sender].nickname,
                 replyToMessageId |-> replyToMessageId, isDeleted |-> FALSE]
           ELSE s.messages[i]]
    /\ periods' = IF ~periodExists[period] THEN Append(periods, period) ELSE periods
    /\ periodExists' = [periodExists EXCEPT ![period] = TRUE]
    /\ messageIdsByPeriod' = [messageIdsByPeriod EXCEPT ![period] = Append(@, messageId)]
    /\ activeMessageCountByPeriod' =
           [s.activeMessageCountByPeriod EXCEPT ![period] = @ + 1]
    /\ senderToMessageIds' = [senderToMessageIds EXCEPT ![sender] = Append(@, messageId)]
    /\ activeSenderMessageCount' = [s.activeSenderMessageCount EXCEPT ![sender] = @ + 1]
    /\ chronologicalMessageIds' = Append(chronologicalMessageIds, messageId)
    /\ messageIdToChronologicalIndex' = [i \in 0..messageId |->
           IF i = messageId THEN Len(chronologicalMessageIds)
           ELSE messageIdToChronologicalIndex[i]]
    /\ totalActiveMessages' = s.totalActiveMessages + 1
    /\ lastMessageTime' = [lastMessageTime EXCEPT ![sender] = now]

\* The index and counter writes postMessage and replyToMessage share: the new
\* record, its period, its sender's list, the chronological list, the total.
StoreNewMessage(s, messageId, sender, content, replyToMessageId) ==
    LET period == messageId \div PERIOD_SIZE IN
    /\ messageCount' = messageCount + 1
    /\ messages' = [i \in 0..messageId |->
           IF i = messageId
           THEN [sender |-> sender, content |-> content, timestamp |-> now,
                 nickname |-> addressToProfile[sender].nickname,
                 replyToMessageId |-> replyToMessageId, isDeleted |-> FALSE]
           ELSE s.messages[i]]
    /\ periods' = IF ~periodExists[period] THEN Append(periods, period) ELSE periods
    /\ periodExists' = [periodExists EXCEPT ![period] = TRUE]
    /\ messageIdsByPeriod' = [messageIdsByPeriod EXCEPT ![period] = Append(@, messageId)]
    /\ activeMessageCountByPeriod' =
           [s.activeMessageCountByPeriod EXCEPT ![period] = @ + 1]
    /\ senderToMessageIds' = [senderToMessageIds EXCEPT ![sender] = Append(@, messageId)]
    /\ activeSenderMessageCount' = [s.activeSenderMessageCount EXCEPT ![sender] = @ + 1]
    /\ chronologicalMessageIds' = Append(chronologicalMessageIds, messageId)
    /\ messageIdToChronologicalIndex' = [i \in 0..messageId |->
           IF i = messageId THEN Len(chronologicalMessageIds)
           ELSE messageIdToChronologicalIndex[i]]
    /\ totalActiveMessages' = s.totalActiveMessages + 1
    /\ lastMessageTime' = [lastMessageTime EXCEPT ![sender] = now]

postMessage(sender, content) ==
    LET s == EvictBeforeCreate
        messageId == messageCount
    IN
    /\ PostMessageCheck(sender, content) = "ok"
    /\ ~s.panic
    /\ StoreNewMessage(s, messageId, sender, content, 0)
    /\ messageReplies' = [i \in 0..messageId |->
           IF i = messageId THEN << >> ELSE messageReplies[i]]
    /\ activeReplyCount' = [i \in 0..messageId |->
           IF i = messageId THEN 0 ELSE s.activeReplyCount[i]]
    /\ last' = Outcome(s.evicted, s.pruned)
    /\ UNCHANGED <<owner, paramVars, profileVars, now>>

replyToMessage(sender, replyToMessageId, content) ==
    LET s == EvictBeforeCreate
        messageId == messageCount
    IN
    /\ ReplyToMessageCheck(sender, replyToMessageId, content) = "ok"
    /\ ~s.panic
    /\ StoreNewMessage(s, messageId, sender, content, replyToMessageId)
    /\ messageReplies' = [i \in 0..messageId |->
           IF i = messageId THEN << >>
           ELSE IF i = replyToMessageId THEN Append(messageReplies[i], messageId)
           ELSE messageReplies[i]]
    /\ activeReplyCount' = [i \in 0..messageId |->
           IF i = messageId THEN 0
           ELSE IF i = replyToMessageId THEN s.activeReplyCount[i] + 1
           ELSE s.activeReplyCount[i]]
    /\ last' = Outcome(s.evicted, s.pruned)
    /\ UNCHANGED <<owner, paramVars, profileVars, now>>

\* Mutant of MarkMessageAsDeletedCheck: the test of isDeleted is missing.
MarkMessageAsDeletedCheck_noDeletedTest(sender, messageId) ==
    IF ~(messageId < messageCount) THEN "Message does not exist"
    ELSE IF ~(messages[messageId].sender = sender \/ sender = owner)
         THEN "Not authorized to delete this message"
    ELSE "ok"


\* Mutant of MarkMessageAsDeletedCheck: the caller is not tested.
MarkMessageAsDeletedCheck_noAuthTest(sender, messageId) ==
    IF ~(messageId < messageCount) THEN "Message does not exist"
    ELSE IF messages[messageId].isDeleted THEN "Message already deleted"
    ELSE "ok"

\* The requires of markMessageAsDeleted in source order.
MarkMessageAsDeletedCheck(sender, messageId) ==
    IF ~(messageId < messageCount) THEN "Message does not exist"
    ELSE IF ~(messages[messageId].sender = sender \/ sender = owner)
         THEN "Not authorized to delete this message"
    ELSE IF messages[messageId].isDeleted THEN "Message already deleted"
    ELSE "ok"


\* Mutant of markMessageAsDeleted: the id is taken out of its sender's index.
markMessageAsDeleted_compactsIndex(sender, messageId) ==
    /\ MarkMessageAsDeletedCheck(sender, messageId) = "ok"
    /\ LET s == _markMessageAsDeleted(Working, messageId) IN
        /\ ~s.panic
        /\ Commit(s)
    /\ senderToMessageIds' =
           [senderToMessageIds EXCEPT ![messages[messageId].sender] =
                SelectSeq(@, LAMBDA i : i # messageId)]
    /\ last' = NoEviction
    /\ UNCHANGED <<owner, paramVars, profileVars, messageIdsByPeriod, periods,
                   periodExists, messageReplies, chronologicalMessageIds,
                   messageIdToChronologicalIndex, messageCount, lastMessageTime, now>>

markMessageAsDeleted(sender, messageId) ==
    /\ MarkMessageAsDeletedCheck(sender, messageId) = "ok"
    /\ LET s == _markMessageAsDeleted(Working, messageId) IN
        /\ ~s.panic
        /\ Commit(s)
    /\ last' = NoEviction
    /\ UNCHANGED <<owner, paramVars, profileVars, indexVars, messageCount,
                   lastMessageTime, now>>

\* ---------------------------------------------------- Administrative surface


\* Mutant of OnlyOwnerCheck: every caller passes.
OnlyOwnerCheck_anyCaller(sender) == "ok"

\* modifier onlyOwner
OnlyOwnerCheck(sender) ==
    IF ~(sender = owner) THEN "Only owner can call this function" ELSE "ok"

updateParameters(sender, newMaxMessageLength, newMessageCooldown, newMaxReturnCount, newMaxActiveMessages) ==
    LET s == IF totalActiveMessages > newMaxActiveMessages
             THEN deleteOldestMessages(Working, totalActiveMessages - newMaxActiveMessages)
             ELSE Working
    IN
    /\ OnlyOwnerCheck(sender) = "ok"
    /\ ~s.panic
    /\ maxMessageLength' = newMaxMessageLength
    /\ messageCooldown' = newMessageCooldown
    /\ maxReturnCount' = newMaxReturnCount
    /\ maxActiveMessages' = newMaxActiveMessages
    /\ Commit(s)
    /\ last' = Outcome(s.evicted, s.pruned)
    /\ UNCHANGED <<owner, profileVars, indexVars, messageCount, lastMessageTime, now>>

TransferOwnershipCheck(sender, newOwner) ==
    IF OnlyOwnerCheck(sender) # "ok" THEN OnlyOwnerCheck(sender)
    ELSE IF ~(newOwner # NullAddress) THEN "New owner cannot be zero address"
    ELSE "ok"

transferOwnership(sender, newOwner) ==
    /\ TransferOwnershipCheck(sender, newOwner) = "ok"
    /\ owner' = newOwner
    /\ last' = NoEviction
    /\ UNCHANGED <<paramVars, profileVars, indexVars, counterVars, recordVars,
                   lastMessageTime, now>>

\* ------------------------------------------------------------ Query Facade

\* new Message[](n): n zero-valued structs.
NewMessageArray(n) == [k \in 1..n |-> ZeroMessage]


\* Mutant of GetMessageCheck: a soft-deleted record is refused.
GetMessageCheck_hidesDeleted(messageId) ==
    IF ~(messageId < messageCount) THEN "Message does not exist"
    ELSE IF messages[messageId].isDeleted THEN "Message does not exist"
    ELSE "ok"

\* The require of getMessage.
GetMessageCheck(messageId) ==
    IF ~(messageId < messageCount) THEN "Message does not exist" ELSE "ok"

getMessage(messageId) == messages[messageId]

\* The requires of getOriginalMessage in source order.
GetOriginalMessageCheck(replyMessageId) ==
    IF ~(replyMessageId < messageCount) THEN "Message does not exist"
    ELSE IF ~(messages[replyMessageId].replyToMessageId > 0) THEN "Not a reply message"
    ELSE "ok"

getOriginalMessage(replyMessageId) ==
    messages[messages[replyMessageId].replyToMessageId]

GetLatestMessagesCheck(count) ==
    IF ~(count <= maxReturnCount) THEN "Too many messages requested" ELSE "ok"

\* The for loop of getLatestMessages: i runs down from the end of the
\* chronological list while the result is not full.
RECURSIVE LatestLoop(_, _, _, _)
LatestLoop(result, i, resultIndex, resultCount) ==
    IF ~(i >= 0 /\ resultIndex < resultCount) THEN result
    ELSE
        LET id == chronologicalMessageIds[i + 1]
            message == messages[id]
        IN  IF message.replyToMessageId = 0 /\ ~message.isDeleted
            THEN LatestLoop([result EXCEPT ![resultIndex + 1] = message],
                            i - 1, resultIndex + 1, resultCount)
            ELSE LatestLoop(result, i - 1, resultIndex, resultCount)

getLatestMessages(count) ==
    LET resultCount == IF count < totalActiveMessages THEN count ELSE totalActiveMessages
        result == NewMessageArray(resultCount)
    IN  IF resultCount = 0 THEN result
        ELSE LatestLoop(result, Len(chronologicalMessageIds) - 1, 0, resultCount)

\* Mutant of CollectActive: deleted records are copied like live ones.
RECURSIVE CollectActive_takesDeleted(_, _, _, _)
CollectActive_takesDeleted(ids, result, i, resultIndex) ==
    IF ~(i < Len(ids) /\ resultIndex < Len(result)) THEN result
    ELSE CollectActive_takesDeleted(ids, [result EXCEPT ![resultIndex + 1] = messages[ids[i + 1]]],
                                    i + 1, resultIndex + 1)

\* The for loop getRepliesForMessage, getMessagesByPeriod and
\* getMessagesBySender share: the index is scanned from (0-based) position i
\* and the live records are copied until the result (sized by the active
\* counter) is full.
RECURSIVE CollectActive(_, _, _, _)
CollectActive(ids, result, i, resultIndex) ==
    IF ~(i < Len(ids) /\ resultIndex < Len(result)) THEN result
    ELSE
        LET messageId == ids[i + 1] IN
            IF ~messages[messageId].isDeleted
            THEN CollectActive(ids, [result EXCEPT ![resultIndex + 1] = messages[messageId]],
                               i + 1, resultIndex + 1)
            ELSE CollectActive(ids, result, i + 1, resultIndex)

GetRepliesForMessageCheck(messageId) ==
    IF ~(messageId < messageCount) THEN "Message does not exist" ELSE "ok"

getRepliesForMessage(messageId) ==
    LET activeReplies == activeReplyCount[messageId]
        result == NewMessageArray(activeReplies)
    IN  IF activeReplies = 0 THEN result
        ELSE CollectActive(messageReplies[messageId], result, 0, 0)

GetMessagesWithPaginationCheck(page, pageSize) ==
    IF ~(pageSize > 0) THEN "Page size must be greater than 0"
    ELSE IF ~(pageSize <= maxReturnCount) THEN "Page size too large"
    ELSE IF page > MaxUint \div pageSize THEN "Panic(0x11)"
    ELSE "ok"

\* The for loop of getMessagesWithPagination, with its break.
RECURSIVE PaginationLoop(_, _, _, _, _, _)
PaginationLoop(result, i, activeCount, resultIndex, startIndex, resultSize) ==
    IF ~(i >= 0 /\ resultIndex < resultSize) THEN result
    ELSE
        LET id == chronologicalMessageIds[i + 1]
            message == messages[id]
            counted == message.replyToMessageId = 0 /\ ~message.isDeleted
            taken == counted /\ activeCount >= startIndex
            result1 == IF taken THEN [result EXCEPT ![resultIndex + 1] = message]
                       ELSE result
            resultIndex1 == IF taken THEN resultIndex + 1 ELSE resultIndex
            activeCount1 == IF counted THEN activeCount + 1 ELSE activeCount
        IN  IF activeCount1 >= startIndex + resultSize THEN result1
            ELSE PaginationLoop(result1, i - 1, activeCount1, resultIndex1,
                                startIndex, resultSize)

getMessagesWithPagination(page, pageSize) ==
    LET startIndex == page * pageSize
        resultSize == IF startIndex + pageSize > totalActiveMessages
                      THEN totalActiveMessages - startIndex ELSE pageSize
    IN  IF startIndex >= totalActiveMessages THEN NewMessageArray(0)
        ELSE PaginationLoop(NewMessageArray(resultSize),
                            Len(chronologicalMessageIds) - 1, 0, 0, startIndex, resultSize)


\* Mutant of GetMessagesByPeriodCheck: a period without a live record is
\* refused.
GetMessagesByPeriodCheck_needsLive(period) ==
    IF ~periodExists[period] THEN "Period does not exist"
    ELSE IF activeMessageCountByPeriod[period] = 0 THEN "Period does not exist"
    ELSE "ok"

GetMessagesByPeriodCheck(period) ==
    IF ~periodExists[period] THEN "Period does not exist" ELSE "ok"

getMessagesByPeriod(period) ==
    LET activeCount == activeMessageCountByPeriod[period]
        result == NewMessageArray(activeCount)
    IN  IF activeCount = 0 THEN result
        ELSE CollectActive(messageIdsByPeriod[period], result, 0, 0)

getMessagesBySender(sender) ==
    LET activeCount == activeSenderMessageCount[sender]
        result == NewMessageArray(activeCount)
    IN  IF activeCount = 0 THEN result
        ELSE CollectActive(senderToMessageIds[sender], result, 0, 0)

\* ------------------------------------------------------------------ server
\* The API server (src/unnamed/part_003).  A cache key is the sequence of the
\* parts of its string between dashes: `latest-${count}` for count 2 is
\* <<"latest", "2">>.

\* The notifications of the contract that reach a handler which deletes cache
\* keys of a message query.  ParameterUpdated and ProfileDeactivated are left
\* out: their handlers delete only the keys contract-parameters and
\* profile-<user>.
Event(name, messageId, replyToMessageId) ==
    [name |-> name, messageId |-> messageId, replyToMessageId |-> replyToMessageId]
MessageSent(messageId) == Event("MessageSent", messageId, 0)
ReplyMessageSent(messageId, replyToMessageId) ==
    Event("ReplyMessageSent", messageId, replyToMessageId)
MessageDeleted(messageId) == Event("MessageDeleted", messageId, 0)
OldMessagesDeleted == Event("OldMessagesDeleted", 0, 0)
ProfileUpdated == Event("ProfileUpdated", 0, 0)

\* The OldMessagesDeleted events of a transaction whose eviction runs deleted
\* the given counts.
PrunedEvents(pruned) == [k \in 1..Len(pruned) |-> OldMessagesDeleted]

\* An HTTP GET of a message query: the route and its numeric parameters.
Request(route, args) == [route |-> route, args |-> args]

\* The requests clients send: the latest two, the first page of two in each
\* paginated shape, everything (limit 1000, page 0, pageSize 100,
\* showDeleted false), and the parent of record 2.
ServerRequests ==
    {Request("latest", <<2>>), Request("feed", <<0, 2>>),
     Request("feedWithReplies", <<0, 2>>), Request("page", <<0, 2>>),
     Request("all", <<1000, 0, 100>>), Request("original", <<2>>)}

\* const cacheKey = ... of each route.
cacheKey(req) ==
    LET a == req.args IN
    CASE req.route = "all" ->
           <<"all", "messages", ToString(a[1]), ToString(a[2]), ToString(a[3]), "false">>
      [] req.route = "feedWithReplies" ->
           <<"feed", "with", "replies", ToString(a[1]), ToString(a[2])>>
      [] req.route = "feed" -> <<"feed", ToString(a[1]), ToString(a[2])>>
      [] req.route = "latest" -> <<"latest", ToString(a[1])>>
      [] req.route = "original" -> <<"original", ToString(a[1])>>
      [] req.route = "page" -> <<"page", ToString(a[1]), ToString(a[2])>>

\* key.startsWith(prefix) for a prefix that ends with a dash: prefix holds the
\* parts before that dash.
startsWith(key, prefix) ==
    /\ Len(key) > Len(prefix)
    /\ SubSeq(key, 1, Len(prefix)) = prefix

\* The filter every route applies to the records it read.
Shown(records) ==
    SelectSeq(records, LAMBDA msg : ~msg.isDeleted /\ msg.sender # NullAddress)

\* The records /api/messages/all and /api/messages/feedWithReplies read one
\* by one with getMessage: the ids from end - 1 down to start.
RangeRead(limit, page, pageSize) ==
    LET base == messageCount - limit - (page * pageSize)
        start == IF base > 1 THEN base ELSE 1
        end == IF messageCount < start + pageSize THEN messageCount ELSE start + pageSize
    IN  [k \in 1..(IF end > start THEN end - start ELSE 0) |-> getMessage(end - k)]

\* What a handler gets from the contract after a cache miss: ok is FALSE when
\* the call reverts or the route answers without caching, data is what it
\* would put in the cache (the records shown; the formatting is not modelled).
ContractRead(req) ==
    LET a == req.args
        failed == [ok |-> FALSE, data |-> << >>]
        Read(records) == [ok |-> TRUE, data |-> Shown(records)]
    IN
    CASE req.route = "all" -> Read(RangeRead(a[1], a[2], a[3]))
      [] req.route = "feedWithReplies" -> Read(RangeRead(a[2], a[1], a[2]))
      [] req.route \in {"feed", "page"} ->
           IF GetMessagesWithPaginationCheck(a[1], a[2]) # "ok" THEN failed
           ELSE Read(getMessagesWithPagination(a[1], a[2]))
      [] req.route = "latest" ->
           IF GetLatestMessagesCheck(a[1]) # "ok" THEN failed
           ELSE Read(getLatestMessages(a[1]))
      [] req.route = "original" ->
           IF GetOriginalMessageCheck(a[1]) # "ok" THEN failed
           ELSE IF getOriginalMessage(a[1]).sender = NullAddress THEN failed
           ELSE Read(<<getOriginalMessage(a[1])>>)

\* A request the server is not serving.
Idle == [pc |-> "idle", data |-> << >>, asOf |-> 0]

InFlight == Cardinality({r \in ServerRequests : requests[r].pc # "idle"})

\* The handler of a GET up to its first await: cache.get misses and the
\* contract is asked.  (On a hit the cached data is sent and nothing changes.)
httpGet(req) ==
    /\ requests[req].pc = "idle"
    /\ cacheKey(req) \notin DOMAIN cache
    /\ InFlight < MaxInFlight
    /\ Cardinality(DOMAIN cache) + InFlight < MaxCached
    /\ requests' = [requests EXCEPT ![req].pc = "reading"]
    /\ UNCHANGED <<storeVars, now, last, cache, log, handled>>

\* The node answers the call from the storage of that moment.  asOf is the
\* number of notifications the contract had emitted by then; the server does
\* not keep it.
contractRead(req) ==
    /\ requests[req].pc = "reading"
    /\ LET r == ContractRead(req) IN
          requests' = [requests EXCEPT ![req] =
              IF r.ok THEN [pc |-> "fetched", data |-> r.data, asOf |-> Len(log)]
              ELSE Idle]
    /\ UNCHANGED <<storeVars, now, last, cache, log, handled>>

\* The handler after its last await: cache.set(cacheKey, result, ttl) and the
\* response.
cacheSet(req) ==
    /\ requests[req].pc = "fetched"
    /\ cache' = [key \in DOMAIN cache \cup {cacheKey(req)} |->
           IF key = cacheKey(req)
           THEN [data |-> requests[req].data, asOf |-> requests[req].asOf]
           ELSE cache[key]]
    /\ requests' = [requests EXCEPT ![req] = Idle]
    /\ UNCHANGED <<storeVars, now, last, log, handled>>

\* The time to live of an entry runs out.
expire(key) ==
    /\ key \in DOMAIN cache
    /\ cache' = [k \in DOMAIN cache \ {key} |-> cache[k]]
    /\ UNCHANGED <<storeVars, now, last, requests, log, handled>>

\* The test of cache.keys().forEach(key => { if (...) cache.del(key) }) in
\* the handler of each notification, with the cache.del calls of single keys.
Deletes(event, key) ==
    CASE event.name = "MessageSent" ->
           startsWith(key, <<"feed">>) \/ startsWith(key, <<"latest">>)
      [] event.name = "ReplyMessageSent" ->
           \/ key = <<"replies", ToString(event.replyToMessageId)>>
           \/ startsWith(key, <<"feed">>)
           \/ startsWith(key, <<"feed", "with", "replies">>)
      [] event.name = "ProfileUpdated" ->
           startsWith(key, <<"feed">>) \/ startsWith(key, <<"sender">>)
      [] event.name = "MessageDeleted" ->
           \/ startsWith(key, <<"feed">>)
           \/ key = <<"replies", ToString(event.messageId)>>
           \/ key = <<"original", ToString(event.messageId)>>
      [] event.name = "OldMessagesDeleted" ->
           \/ startsWith(key, <<"feed">>)
           \/ startsWith(key, <<"replies">>)
           \/ startsWith(key, <<"latest">>)

\* The provider hands the next notification, which is of the given name, to
\* its handler; the handler deletes keys before its first await and does not
\* touch the cache after it.
Handle(name) ==
    /\ handled < Len(log)
    /\ log[handled + 1].name = name
    /\ cache' = [key \in {k \in DOMAIN cache : ~Deletes(log[handled + 1], k)} |->
                     cache[key]]
    /\ handled' = handled + 1

onMessageSent ==
    /\ Handle("MessageSent")
    /\ UNCHANGED <<storeVars, now, last, requests, log>>

onReplyMessageSent ==
    /\ Handle("ReplyMessageSent")
    /\ UNCHANGED <<storeVars, now, last, requests, log>>

onProfileUpdated ==
    /\ Handle("ProfileUpdated")
    /\ UNCHANGED <<storeVars, now, last, requests, log>>

onMessageDeleted ==
    /\ Handle("MessageDeleted")
    /\ UNCHANGED <<storeVars, now, last, requests, log>>

onOldMessagesDeleted ==
    /\ Handle("OldMessagesDeleted")
    /\ UNCHANGED <<storeVars, now, last, requests, log>>

\* The provider hands the events of a mined transaction to the listeners, in
\* the order they were emitted.
Emitted(events) ==
    /\ log' = log \o events
    /\ Len(log') <= MaxEvents
    /\ UNCHANGED <<cache, requests, handled>>

\* ------------------------------------------------------------- environment

\* block.timestamp advances between transactions.
Tick ==
    /\ now < StartTime + MaxTicks
    /\ now' = now + 1
    /\ UNCHANGED <<storeVars, last, serverVars>>

\* ------------------------------------------------------------ initial states


\* Mutant of Constructed: record 0 is created live.
Constructed_liveSentinel ==
    /\ owner = Deployer
    /\ maxMessageLength = InitMaxMessageLength
    /\ messageCooldown = InitMessageCooldown
    /\ maxReturnCount = InitMaxReturnCount
    /\ maxActiveMessages = InitMaxActiveMessages
    /\ messages = [i \in {0} |-> [ZeroMessage EXCEPT !.timestamp = StartTime]]
    /\ messageCount = 1
    /\ messageIdsByPeriod = [p \in Periods |-> IF p = 0 THEN <<0>> ELSE << >>]
    /\ activeMessageCountByPeriod = [p \in Periods |-> 0]
    /\ periods = <<0>>
    /\ periodExists = [p \in Periods |-> p = 0]
    /\ senderToMessageIds = [a \in AllAddresses |-> << >>]
    /\ activeSenderMessageCount = [a \in AllAddresses |-> 0]
    /\ messageReplies = [i \in {0} |-> << >>]
    /\ activeReplyCount = [i \in {0} |-> 0]
    /\ nicknameToAddress = [n \in Nicknames |-> NullAddress]
    /\ addressToProfile = [a \in Addresses |-> ZeroProfile]
    /\ lastMessageTime = [a \in Addresses |-> 0]
    /\ totalActiveMessages = 0
    /\ chronologicalMessageIds = <<0>>
    /\ messageIdToChronologicalIndex = [i \in {0} |-> 0]
    /\ now = StartTime
    /\ last = NoEviction

\* Storage right after the constructor ran (deployed by Deployer).
Constructed ==
    /\ owner = Deployer
    /\ maxMessageLength = InitMaxMessageLength
    /\ messageCooldown = InitMessageCooldown
    /\ maxReturnCount = InitMaxReturnCount
    /\ maxActiveMessages = InitMaxActiveMessages
    /\ messages = [i \in {0} |-> [ZeroMessage EXCEPT !.timestamp = StartTime,
                                                     !.isDeleted = TRUE]]
    /\ messageCount = 1
    /\ messageIdsByPeriod = [p \in Periods |-> IF p = 0 THEN <<0>> ELSE << >>]
    /\ activeMessageCountByPeriod = [p \in Periods |-> 0]
    /\ periods = <<0>>
    /\ periodExists = [p \in Periods |-> p = 0]
    /\ senderToMessageIds = [a \in AllAddresses |-> << >>]
    /\ activeSenderMessageCount = [a \in AllAddresses |-> 0]
    /\ messageReplies = [i \in {0} |-> << >>]
    /\ activeReplyCount = [i \in {0} |-> 0]
    /\ nicknameToAddress = [n \in Nicknames |-> NullAddress]
    /\ addressToProfile = [a \in Addresses |-> ZeroProfile]
    /\ lastMessageTime = [a \in Addresses |-> 0]
    /\ totalActiveMessages = 0
    /\ chronologicalMessageIds = <<0>>
    /\ messageIdToChronologicalIndex = [i \in {0} |-> 0]
    /\ now = StartTime
    /\ last = NoEviction

\* The server right after start: nothing cached, served or heard.
ServerStarted ==
    /\ cache = << >>
    /\ requests = [req \in ServerRequests |-> Idle]
    /\ log = << >>
    /\ handled = 0

Init == Constructed /\ ServerStarted

\* Every transaction an account can send, with inputs from the given sets:
\* profileCalls are <<caller, nickname>> pairs, parameters are the 4-tuples
\* passed to updateParameters, newOwners the addresses passed to
\* transferOwnership, and at most maxRecords ids are assigned.  The server is
\* not running.
Transactions(profileCalls, avatarCodes, contents, parameters, newOwners, maxRecords) ==
    \/ \E pc \in profileCalls, c \in avatarCodes :
          updateProfile(pc[1], pc[2], c) /\ UNCHANGED serverVars
    \/ \E a \in Addresses, c \in avatarCodes :
          updateAvatar(a, c) /\ UNCHANGED serverVars
    \/ \E a \in Addresses : deactivateProfile(a) /\ UNCHANGED serverVars
    \/ \E a \in Addresses, c \in contents :
          messageCount < maxRecords /\ postMessage(a, c) /\ UNCHANGED serverVars
    \/ \E a \in Addresses, p \in TargetIds, c \in contents :
          /\ messageCount < maxRecords
          /\ replyToMessage(a, p, c)
          /\ UNCHANGED serverVars
    \/ \E a \in Addresses, i \in TargetIds :
          markMessageAsDeleted(a, i) /\ UNCHANGED serverVars
    \/ \E a \in Addresses, p \in parameters :
          updateParameters(a, p[1], p[2], p[3], p[4]) /\ UNCHANGED serverVars
    \/ \E a \in Addresses, n \in newOwners :
          transferOwnership(a, n) /\ UNCHANGED serverVars

\* The message store: two authors with one nickname each, one body, the
\* capacities 0, 1 and 3, all transactions in one block.  Ownership stays with
\* the deployer (a transfer names the null address or the owner itself): the
\* states under the other owner are these with the two accounts exchanged.
StoreProfileCalls == {<<1, NickA>>, <<2, NickB>>}
StoreParameters ==
    {<<InitMaxMessageLength, 0, InitMaxReturnCount, 3>>,
     <<InitMaxMessageLength, 0, 2, 1>>,
     <<1, 0, 1, 0>>}

Next ==
    Transactions(StoreProfileCalls, {EmptyString}, {ContentShort}, StoreParameters,
                 {NullAddress, Deployer}, 1 + MaxNewMessages)

Spec == Init /\ [][Next]_vars

\* The profile directory: both accounts may claim either nickname and change
\* avatars; one record is enough to fire the message transactions.
ProfileCalls == Addresses \X {NickA, NickB}
ProfileParameters == {<<InitMaxMessageLength, 0, InitMaxReturnCount, 2>>}

NextProfile ==
    Transactions(ProfileCalls, AvatarCodes, {ContentShort}, ProfileParameters,
                 AllAddresses, 1 + 1)

SpecProfile == Init /\ [][NextProfile]_vars

\* The records under profile changes: the authors rename, change avatars and
\* deactivate between creates, under a capacity of one record.
RecordsParameters == {<<InitMaxMessageLength, 0, InitMaxReturnCount, 1>>}

NextRecords ==
    Transactions(ProfileCalls, AvatarCodes, {ContentShort}, RecordsParameters,
                 {NullAddress, Deployer}, 1 + 2)

SpecRecords == Init /\ [][NextRecords]_vars

\* The clock: block.timestamp advances between the transactions of one author
\* pair, under a zero cooldown and under one the clock outlasts.
ClockParameters ==
    {<<InitMaxMessageLength, 0, InitMaxReturnCount, 2>>,
     <<InitMaxMessageLength, MaxTicks, InitMaxReturnCount, 2>>}

NextClock ==
    \/ Tick
    \/ Transactions(StoreProfileCalls, {EmptyString}, {ContentShort}, ClockParameters,
                    AllAddresses, 1 + 2)

SpecClock == Init /\ [][NextClock]_vars


\* Ownership changes hands over a store of capacity 1 or 2, so that explicit
\* deletes by a new owner and eviction runs meet.
OwnersParameters ==
    {<<InitMaxMessageLength, 0, InitMaxReturnCount, 1>>,
     <<InitMaxMessageLength, 0, 2, 2>>}

NextOwners ==
    Transactions(StoreProfileCalls, {EmptyString}, {ContentShort}, OwnersParameters,
                 AllAddresses, 1 + 3)

SpecOwners == Init /\ [][NextOwners]_vars

\* The server beside the store: one account, which owns the contract, claims
\* a nickname, sets a zero cooldown with a capacity of one record, and
\* creates and deletes records, while clients send requests.
ServerParameters == {<<InitMaxMessageLength, 0, InitMaxReturnCount, 1>>}

NextServer ==
    \/ updateProfile(Deployer, NickA, EmptyString) /\ Emitted(<<ProfileUpdated>>)
    \/ \E p \in ServerParameters :
          /\ updateParameters(Deployer, p[1], p[2], p[3], p[4])
          /\ Emitted(PrunedEvents(last'.pruned))
    \/ /\ messageCount < 1 + 2
       /\ postMessage(Deployer, ContentShort)
       /\ Emitted(PrunedEvents(last'.pruned) \o <<MessageSent(messageCount)>>)
    \/ \E p \in TargetIds :
          /\ messageCount < 1 + 2
          /\ replyToMessage(Deployer, p, ContentShort)
          /\ Emitted(PrunedEvents(last'.pruned) \o <<ReplyMessageSent(messageCount, p)>>)
    \/ \E i \in TargetIds :
          markMessageAsDeleted(Deployer, i) /\ Emitted(<<MessageDeleted(i)>>)
    \/ \E req \in ServerRequests : httpGet(req)
    \/ \E req \in ServerRequests : contractRead(req)
    \/ \E req \in ServerRequests : cacheSet(req)
    \/ \E key \in DOMAIN cache : expire(key)
    \/ onMessageSent
    \/ onReplyMessageSent
    \/ onProfileUpdated
    \/ onMessageDeleted
    \/ onOldMessagesDeleted

SpecServer == Init /\ [][NextServer]_vars

\* ------------------------------------------------------------------ claims

Range(seq) == {seq[k] : k \in 1..Len(seq)}
ExistingIds == 0..(messageCount - 1)
\* Entries of an index whose record is not soft-deleted.
LiveEntries(seq) == Cardinality({k \in 1..Len(seq) : ~messages[seq[k]].isDeleted})
IsTopLevel(i) == messages[i].replyToMessageId = 0
IsLive(i) == ~messages[i].isDeleted
\* The ids whose isDeleted flag the step turns from false to true.
Flipped == {i \in ExistingIds : ~messages[i].isDeleted /\ messages'[i].isDeleted}
AllParameters ==
    StoreParameters \cup ProfileParameters \cup RecordsParameters \cup ClockParameters
        \cup OwnersParameters
IsUpdateParameters ==
    \E a \in Addresses, p \in AllParameters : updateParameters(a, p[1], p[2], p[3], p[4])

\* C1: the global, per-period and per-sender active counters equal the number
\* of non-deleted records in the record table, in each period's index and in
\* each sender's index.
C1_ActiveCountersMatch ==
    /\ totalActiveMessages = Cardinality({i \in ExistingIds : IsLive(i)})
    /\ \A b \in Periods :
           activeMessageCountByPeriod[b] = LiveEntries(messageIdsByPeriod[b])
    /\ \A a \in AllAddresses :
           activeSenderMessageCount[a] = LiveEntries(senderToMessageIds[a])

\* C1 witness: after creates by two senders, an explicit delete and an
\* eviction, live and deleted records stand in two periods.
C1_Witness ==
    /\ last.evicted # << >>
    /\ totalActiveMessages >= 1
    /\ \E i \in ExistingIds : i # 0 /\ ~IsLive(i) /\ i \notin Range(last.evicted)
    /\ \A a \in Addresses : Len(senderToMessageIds[a]) > 0
    /\ \E b \in Periods : b # 0 /\ activeMessageCountByPeriod[b] > 0

\* C2: for every existing parent id p, the sentinel included, activeReplyCount[p]
\* equals the number of non-deleted ids in messageReplies[p].
C2_ReplyCountersMatch ==
    \A p \in ExistingIds : activeReplyCount[p] = LiveEntries(messageReplies[p])

\* C3: under a positive capacity, a create that starts with totalActiveMessages
\* within the capacity ends with totalActiveMessages within the capacity.
C3_CreateKeepsCapacity ==
    [][(/\ messageCount' = messageCount + 1
        /\ maxActiveMessages > 0
        /\ totalActiveMessages <= maxActiveMessages)
           => totalActiveMessages' <= maxActiveMessages']_vars

\* C4: the records an eviction run soft-deletes are exactly the records it
\* logs, and each of them is, when it is deleted, the smallest id among the
\* non-deleted top-level records: it is top-level and live before the run, and
\* every smaller live top-level id was deleted earlier in the same run.
C4_EvictsOldestTopLevel ==
    [][LET E == last'.evicted IN
       /\ (Flipped = Range(E)
            \/ \E a \in Addresses, i \in ExistingIds : markMessageAsDeleted(a, i))
       /\ \A k \in 1..Len(E) :
            /\ E[k] \in ExistingIds /\ E[k] # 0
            /\ IsTopLevel(E[k]) /\ IsLive(E[k])
            /\ \A j \in 1..(E[k] - 1) :
                   (IsTopLevel(j) /\ IsLive(j)) => \E m \in 1..(k - 1) : E[m] = j
      ]_vars

\* C4 witness: a run evicted records 1 and 3 and passed over the live reply 2.
C4_Witness ==
    /\ last.evicted = <<1, 3>>
    /\ messages[2].replyToMessageId # 0
    /\ IsLive(2)

\* C5: a record with a non-zero replyToMessageId is soft-deleted only by
\* markMessageAsDeleted, never by an eviction run, and an activeReplyCount
\* entry changes only by the reply that is created or the reply that is
\* explicitly deleted, never by an eviction run.
C5_EvictionSparesReplies ==
    [][/\ \A i \in Flipped :
            ~IsTopLevel(i) => \E a \in Addresses : markMessageAsDeleted(a, i)
       /\ \A k \in 1..Len(last'.evicted) : IsTopLevel(last'.evicted[k])
       /\ \A p \in ExistingIds :
            \/ activeReplyCount'[p] = activeReplyCount[p]
            \/ /\ activeReplyCount'[p] = activeReplyCount[p] + 1
               /\ \E a \in Addresses : replyToMessage(a, p, ContentShort)
            \/ /\ activeReplyCount'[p] = activeReplyCount[p] - 1
               /\ \E a \in Addresses, i \in ExistingIds :
                      messages[i].replyToMessageId = p /\ markMessageAsDeleted(a, i)
      ]_vars

\* C5 witness: an eviction run has just deleted a top-level record while a
\* reply older than it is still live and counted by its parent.
C5_Witness ==
    \E r \in ExistingIds :
        /\ ~IsTopLevel(r) /\ IsLive(r)
        /\ activeReplyCount[messages[r].replyToMessageId] > 0
        /\ \E k \in 1..Len(last.evicted) : last.evicted[k] > r

\* C6: when updateParameters lowers the capacity below totalActiveMessages,
\* totalActiveMessages equals the new capacity when the call returns.
C6_LoweringReachesCapacity ==
    [][(IsUpdateParameters /\ maxActiveMessages' < totalActiveMessages)
           => totalActiveMessages' = maxActiveMessages']_vars

\* C7: at most one account has an active profile with a given nickname; the
\* directory maps every active profile's nickname to its account; and every
\* directory entry h -> X has X's profile active with nickname h.
C7_NicknameUnique ==
    /\ \A x, y \in Addresses :
           (/\ addressToProfile[x].isActive /\ addressToProfile[y].isActive
            /\ addressToProfile[x].nickname = addressToProfile[y].nickname) => x = y
    /\ \A x \in Addresses :
           addressToProfile[x].isActive =>
               nicknameToAddress[addressToProfile[x].nickname] = x
    /\ \A h \in Nicknames :
           nicknameToAddress[h] # NullAddress =>
               /\ nicknameToAddress[h] \in Addresses
               /\ addressToProfile[nicknameToAddress[h]].nickname = h
               /\ addressToProfile[nicknameToAddress[h]].isActive

\* C7 witness: an account that deactivated keeps the nickname in its profile
\* while the other account holds that nickname in the directory.
C7_Witness ==
    \E x, y \in Addresses :
        /\ x # y
        /\ ~addressToProfile[x].isActive
        /\ addressToProfile[x].nickname = addressToProfile[y].nickname
        /\ addressToProfile[y].isActive
        /\ nicknameToAddress[addressToProfile[y].nickname] = y

\* C8: while the directory maps a nickname to another account, updateProfile
\* with that nickname reverts with "Nickname already taken" whatever the
\* avatar, and so writes neither the directory nor a profile.
C8_TakenNicknameRejected ==
    \A y \in Addresses, h \in Nicknames :
        (nicknameToAddress[h] # NullAddress /\ nicknameToAddress[h] # y) =>
            /\ UpdateProfileCheck(y, h) = "Nickname already taken"
            /\ \A c \in AvatarCodes : ~ENABLED updateProfile(y, h, c)

\* C8 witness: an account that already has a profile of its own faces a
\* nickname the other account holds.
C8_Witness ==
    \E y \in Addresses, h \in Nicknames :
        /\ nicknameToAddress[h] # NullAddress /\ nicknameToAddress[h] # y
        /\ addressToProfile[y].isActive
        /\ addressToProfile[y].nickname # h

\* The step is x giving up the directory entry of h: x deactivates, or x
\* claims another nickname.
Releases(x, h) ==
    \/ deactivateProfile(x)
    \/ \E pc \in ProfileCalls, c \in AvatarCodes :
           pc[1] = x /\ pc[2] # h /\ updateProfile(x, pc[2], c)

\* C9: when the holder x of the directory entry of h renames to another
\* nickname or deactivates, the directory then maps h to the null address and
\* updateProfile(h, _) by any other account passes its requires; a successful
\* updateProfile(h, _) by y maps h to y; and no other step removes the entry.
C9_ReleaseFreesNickname ==
    [][\A x \in Addresses, h \in Nicknames :
        /\ (nicknameToAddress[h] = x /\ Releases(x, h)) =>
               /\ getAddressByNickname(h)' = NullAddress
               /\ \A y \in Addresses \ {x} : UpdateProfileCheck(y, h)' = "ok"
        /\ (\E c \in AvatarCodes : updateProfile(x, h, c)) =>
               getAddressByNickname(h)' = x
        /\ (nicknameToAddress[h] = x /\ nicknameToAddress'[h] # x) => Releases(x, h)
      ]_vars

\* C9 witness: an account posted as NickA and renamed to NickB, and the
\* other account claimed the released NickA afterwards.
C9_Witness ==
    \E x, y \in Addresses :
        /\ x # y
        /\ addressToProfile[x].isActive /\ addressToProfile[y].isActive
        /\ addressToProfile[x].nickname = NickB /\ nicknameToAddress[NickB] = x
        /\ addressToProfile[y].nickname = NickA /\ nicknameToAddress[NickA] = y
        /\ messageCount > 1 /\ messages[1].sender = x /\ messages[1].nickname = NickA

\* C10: markMessageAsDeleted on a deleted record, by its sender or the owner,
\* reverts with "Message already deleted" and so writes nothing; the internal
\* _markMessageAsDeleted leaves records and counters as they are as well.
C10_DeleteIsGuarded ==
    \A i \in ExistingIds, a \in Addresses :
        (messages[i].isDeleted /\ (messages[i].sender = a \/ a = owner)) =>
            /\ MarkMessageAsDeletedCheck(a, i) = "Message already deleted"
            /\ ~ENABLED markMessageAsDeleted(a, i)
            /\ _markMessageAsDeleted(Working, i) = Working

\* C10 witness: one record was deleted by an eviction run, another by an
\* explicit delete, and one is still live.
C10_Witness ==
    /\ \E i \in ExistingIds : i \in Range(last.evicted)
    /\ \E i \in ExistingIds : i # 0 /\ ~IsLive(i) /\ i \notin Range(last.evicted)
    /\ \E i \in ExistingIds : IsLive(i)

\* The step creates a record: a postMessage or a replyToMessage went through.
IsCreate ==
    \E a \in Addresses, c \in AcceptedContents :
        \/ postMessage(a, c)
        \/ \E p \in TargetIds : replyToMessage(a, p, c)

\* C11: the sender, content, timestamp, nickname and replyToMessageId of an
\* existing record never change, whatever its author does to the profile,
\* and isDeleted never goes back from true to false.
C11_RecordsImmutable ==
    [][\A i \in ExistingIds :
        /\ messages'[i].sender = messages[i].sender
        /\ messages'[i].content = messages[i].content
        /\ messages'[i].timestamp = messages[i].timestamp
        /\ messages'[i].nickname = messages[i].nickname
        /\ messages'[i].replyToMessageId = messages[i].replyToMessageId
        /\ messages[i].isDeleted => messages'[i].isDeleted
      ]_vars

\* C11 witness: a record evicted in the last transaction still carries the
\* nickname its author had when posting and has since renamed away from,
\* and another record's author has deactivated.
C11_Witness ==
    /\ \E i \in Range(last.evicted) :
           /\ messages[i].isDeleted
           /\ messages[i].content = ContentShort
           /\ messages[i].nickname # addressToProfile[messages[i].sender].nickname
    /\ \E i \in ExistingIds :
           i # 0 /\ ~addressToProfile[messages[i].sender].isActive

\* C12: messageCount never decreases.  A step that adds a record, lengthens the
\* chronological list or advances a cooldown clock is a postMessage or a
\* replyToMessage; it gives the new record the id messageCount had before and
\* adds exactly 1.  Every other step (deletes and evictions among them) leaves
\* messageCount as it is.  The ids assigned are 0 .. messageCount - 1, each
\* once.
C12_IdsAssignedOnce ==
    [][/\ messageCount' >= messageCount
       /\ \/ /\ messageCount' = messageCount + 1
             /\ DOMAIN messages' \ DOMAIN messages = {messageCount}
             /\ ~messages'[messageCount].isDeleted
             /\ chronologicalMessageIds' = Append(chronologicalMessageIds, messageCount)
             /\ IsCreate
          \/ /\ messageCount' = messageCount
             /\ DOMAIN messages' = DOMAIN messages
             /\ chronologicalMessageIds' = chronologicalMessageIds
             /\ lastMessageTime' = lastMessageTime
       /\ DOMAIN messages' = 0..(messageCount' - 1)
       /\ Len(chronologicalMessageIds') = messageCount'
       /\ \A k \in 1..Len(chronologicalMessageIds') :
              chronologicalMessageIds'[k] = k - 1
      ]_vars

\* C12 witness: three records were created, one was deleted explicitly and
\* one was evicted, and messageCount stands at 4.
C12_Witness ==
    /\ messageCount = 4
    /\ \E i \in Range(last.evicted) : messages[i].isDeleted
    /\ \E i \in ExistingIds : i # 0 /\ ~IsLive(i) /\ i \notin Range(last.evicted)

\* ------------------------------------------------------ claims on queries

\* Counts, page numbers and page sizes a caller asks for.
Counts == 0..(MaxNewMessages + 1)
PageSizes == 1..(MaxNewMessages + 1)
Reverse(seq) == [k \in 1..Len(seq) |-> seq[Len(seq) + 1 - k]]
Min(a, b) == IF a < b THEN a ELSE b
\* The ids in creation order, and the records of a sequence of ids.
IdsInOrder == [k \in 1..messageCount |-> k - 1]
Records(ids) == [k \in 1..Len(ids) |-> messages[ids[k]]]
IsFeedId(i) == IsLive(i) /\ IsTopLevel(i)
\* The non-deleted top-level records, newest first.
Feed == Records(SelectSeq(Reverse(IdsInOrder), IsFeedId))
\* The non-deleted records of an index, in insertion order.
LiveRecords(ids) == Records(SelectSeq(ids, IsLive))

\* C13: for n <= maxReturnCount, getLatestMessages(n) is the first
\* min(n, L) elements of the newest-first sequence of the L non-deleted
\* top-level records, with no extra or empty entries.
C13_LatestIsFeedPrefix ==
    \A n \in Counts :
        GetLatestMessagesCheck(n) = "ok" =>
            getLatestMessages(n) = SubSeq(Feed, 1, Min(n, Len(Feed)))

\* C14: for 0 < s <= maxReturnCount, getMessagesWithPagination(p, s) is the
\* slice [p*s, p*s+s) of the newest-first sequence of non-deleted top-level
\* records, shorter when the sequence ends inside it, empty past its end.
C14_PageIsFeedSlice ==
    \A page \in Counts, pageSize \in PageSizes :
        GetMessagesWithPaginationCheck(page, pageSize) = "ok" =>
            getMessagesWithPagination(page, pageSize) =
                SubSeq(Feed, page * pageSize + 1,
                       Min(page * pageSize + pageSize, Len(Feed)))

\* The pages p, p + 1, ... of size s up to the first empty one, concatenated.
RECURSIVE PagesFrom(_, _)
PagesFrom(page, pageSize) ==
    LET result == getMessagesWithPagination(page, pageSize) IN
        IF result = << >> THEN << >>
        ELSE result \o PagesFrom(page + 1, pageSize)

\* C15: for any page size the pages up to the first empty one, concatenated,
\* are the getLatestMessages(total) sequence, and they have no gap (every
\* non-deleted top-level record is there), no duplicate and no extra entry
\* (every entry is a non-deleted top-level record).
C15_PagesReproduceLatest ==
    \A pageSize \in PageSizes :
        (/\ GetMessagesWithPaginationCheck(0, pageSize) = "ok"
         /\ GetLatestMessagesCheck(totalActiveMessages) = "ok") =>
            LET all == PagesFrom(0, pageSize) IN
            /\ all = getLatestMessages(totalActiveMessages)
            /\ Range(Feed) \subseteq Range(all)
            /\ \A j, k \in 1..Len(all) : all[j] = all[k] => j = k
            /\ Range(all) \subseteq Range(Feed)

\* C16: for every existing id p, deleted or not, getRepliesForMessage(p) is
\* the non-deleted records of messageReplies[p] in insertion order, with no
\* empty entry.
C16_RepliesAreLiveEntries ==
    \A p \in ExistingIds :
        /\ GetRepliesForMessageCheck(p) = "ok"
        /\ getRepliesForMessage(p) = LiveRecords(messageReplies[p])

\* C17: getMessagesBySender(a) is the non-deleted records a authored, in
\* creation order; getMessagesByPeriod(b) is the non-deleted records with
\* id div PERIOD_SIZE = b, in creation order, and it fails with "Period does
\* not exist" exactly when no record was ever assigned to b.
C17_SenderAndPeriodListings ==
    /\ \A a \in AllAddresses :
           LET ByA(i) == IsLive(i) /\ messages[i].sender = a IN
               getMessagesBySender(a) = Records(SelectSeq(IdsInOrder, ByA))
    /\ \A b \in Periods :
           LET InB(i) == IsLive(i) /\ i \div PERIOD_SIZE = b IN
           /\ GetMessagesByPeriodCheck(b) = "ok" =>
                  getMessagesByPeriod(b) = Records(SelectSeq(IdsInOrder, InB))
           /\ GetMessagesByPeriodCheck(b) = "Period does not exist"
                  <=> ~ \E i \in ExistingIds : i \div PERIOD_SIZE = b

\* C17 witness: a post and a reply by different accounts are listed, and in
\* the second period a live record follows a deleted one of the same sender.
C17_Witness ==
    /\ \E i, j \in ExistingIds :
           /\ IsLive(i) /\ IsLive(j) /\ IsTopLevel(i) /\ ~IsTopLevel(j)
           /\ messages[i].sender # messages[j].sender
    /\ \E i, j \in ExistingIds :
           /\ i < j /\ ~IsLive(i) /\ IsLive(j)
           /\ i \div PERIOD_SIZE = j \div PERIOD_SIZE
           /\ i \div PERIOD_SIZE # 0
           /\ messages[i].sender = messages[j].sender

\* ------------------------------------------------------ claims on creates

\* The preconditions of a create, each true when it is violated.
ProfileMissing(a) == Len(addressToProfile[a].nickname) = 0
ProfileInactive(a) == ~addressToProfile[a].isActive
BodyEmpty(c) == Len(c) = 0
BodyTooLong(c) == Len(c) > maxMessageLength
CooldownActive(a) == now - lastMessageTime[a] < messageCooldown
ParentMissing(p) == ~(p < messageCount)

\* The reason of the first violated entry of a sequence of
\* <<violated, reason>> pairs, "ok" when none is violated.
FirstFailure(tests) ==
    LET violated == {k \in 1..Len(tests) : tests[k][1]} IN
        IF violated = {} THEN "ok"
        ELSE tests[CHOOSE k \in violated : \A j \in violated : k <= j][2]

\* The tests of a create in the order the claim gives, and in the order of
\* the requires.
ClaimedOrder(a, c) ==
    << <<ProfileMissing(a), "Create a profile first">>,
       <<ProfileInactive(a), "Profile is deactivated">>,
       <<BodyEmpty(c), "Message cannot be empty">>,
       <<BodyTooLong(c), "Message too long">>,
       <<CooldownActive(a), "Please wait before posting again">> >>
RequireOrder(a, c) ==
    << <<BodyEmpty(c), "Message cannot be empty">>,
       <<BodyTooLong(c), "Message too long">>,
       <<CooldownActive(a), "Please wait before posting again">>,
       <<ProfileMissing(a), "Create a profile first">>,
       <<ProfileInactive(a), "Profile is deactivated">> >>
ParentTest(p) == << <<ParentMissing(p), "Original message does not exist">> >>

\* C18 as claimed: the failure reported is the first violated precondition in
\* the order profile missing, profile inactive, body empty, body too long,
\* cooldown active, parent not found, for postMessage and replyToMessage.
C18_ProfileTestedFirst ==
    \A a \in Addresses, c \in Contents :
        /\ PostMessageCheck(a, c) = FirstFailure(ClaimedOrder(a, c))
        /\ \A p \in TargetIds :
               ReplyToMessageCheck(a, p, c) =
                   FirstFailure(ClaimedOrder(a, c) \o ParentTest(p))

\* C18 amended: the failure reported is the first violated precondition in
\* the order parent not found (replyToMessage only), body empty, body too
\* long, cooldown active, profile missing, profile inactive; a create with a
\* violated precondition does not go through.
C18_RequireOrder ==
    \A a \in Addresses, c \in Contents :
        /\ PostMessageCheck(a, c) = FirstFailure(RequireOrder(a, c))
        /\ FirstFailure(RequireOrder(a, c)) # "ok" => ~ENABLED postMessage(a, c)
        /\ \A p \in TargetIds :
               /\ ReplyToMessageCheck(a, p, c) =
                      FirstFailure(ParentTest(p) \o RequireOrder(a, c))
               /\ FirstFailure(ParentTest(p) \o RequireOrder(a, c)) # "ok"
                      => ~ENABLED replyToMessage(a, p, c)

\* C18 witness: an author who posted and then deactivated is still inside a
\* non-zero cooldown, so a create with an empty body violates three
\* preconditions at once.
C18_Witness ==
    \E a \in Addresses :
        /\ ~ProfileMissing(a) /\ ProfileInactive(a)
        /\ lastMessageTime[a] > 0 /\ messageCooldown > 0 /\ CooldownActive(a)

\* The time of the last record a created, post or reply; 0 when there is none.
LastCreateTime(a) ==
    LET ids == {i \in ExistingIds \ {0} : messages[i].sender = a} IN
        IF ids = {} THEN 0
        ELSE messages[CHOOSE i \in ids : \A j \in ids : j <= i].timestamp

\* The cooldown rule in the current state, for creates that pass the tests
\* that come before the clock.
CooldownRule ==
    \A a \in Addresses, p \in ExistingIds :
        LET elapsed == now - LastCreateTime(a) IN
        /\ elapsed < messageCooldown =>
               /\ PostMessageCheck(a, ContentShort) = "Please wait before posting again"
               /\ ReplyToMessageCheck(a, p, ContentShort) = "Please wait before posting again"
        /\ elapsed >= messageCooldown =>
               /\ PostMessageCheck(a, ContentShort) # "Please wait before posting again"
               /\ ReplyToMessageCheck(a, p, ContentShort) # "Please wait before posting again"

\* C19: posts and replies share one clock per author: a create by a is
\* rejected with "Please wait before posting again" while the time since a's
\* last post or reply is below messageCooldown and is not rejected for the
\* cooldown once it is at least messageCooldown; a's clock changes only in a
\* post or reply by a, which sets it to the current time.
C19_SharedCooldownClock ==
    [][/\ CooldownRule
       /\ CooldownRule'
       /\ \A a \in Addresses :
            /\ lastMessageTime'[a] # lastMessageTime[a] =>
                   /\ messageCount' = messageCount + 1
                   /\ messages'[messageCount].sender = a
            /\ (messageCount' = messageCount + 1 /\ messages'[messageCount].sender = a)
                   => lastMessageTime'[a] = now
      ]_vars

\* C19 witness: under a non-zero cooldown an author has a post and a reply
\* whose timestamps lie at least the cooldown apart.
C19_Witness ==
    /\ messageCooldown > 0
    /\ \E i, j \in ExistingIds :
           /\ i # 0 /\ i < j /\ messages[i].sender = messages[j].sender
           /\ IsTopLevel(i) /\ ~IsTopLevel(j)
           /\ messages[j].timestamp - messages[i].timestamp >= messageCooldown

\* ------------------------------------------------- claims on failed writes

\* A create by a with body c violates a precondition.
CreateRejected(a, c) ==
    \/ ProfileMissing(a) \/ ProfileInactive(a)
    \/ BodyEmpty(c) \/ BodyTooLong(c) \/ CooldownActive(a)

\* C20: a write whose precondition fails has no effect at all: the
\* transaction is not a step of the store, so records, indexes, counters,
\* profiles, directory, clocks, parameters and owner stay as they are, and a
\* rejected create evicts nothing.
C20_FailedWriteIsNoStep ==
    \A a \in Addresses :
        /\ \A n \in Nicknames, v \in AvatarCodes :
               (\/ Len(n) = 0 \/ Len(n) > MaxNicknameLength
                \/ \E k \in 1..Len(n) : n[k] \notin
                       (48..57) \cup (65..90) \cup (97..122) \cup {95}
                \/ nicknameToAddress[n] \notin {NullAddress, a})
                   => ~ENABLED updateProfile(a, n, v)
        /\ ProfileMissing(a) =>
               /\ \A v \in AvatarCodes : ~ENABLED updateAvatar(a, v)
               /\ ~ENABLED deactivateProfile(a)
        /\ \A c \in Contents :
               /\ CreateRejected(a, c) => ~ENABLED postMessage(a, c)
               /\ \A p \in TargetIds :
                      (CreateRejected(a, c) \/ ParentMissing(p))
                          => ~ENABLED replyToMessage(a, p, c)
        /\ \A i \in TargetIds :
               (\/ ~(i < messageCount)
                \/ (Msg(i).sender # a /\ a # owner)
                \/ Msg(i).isDeleted)
                   => ~ENABLED markMessageAsDeleted(a, i)
        /\ a # owner =>
               \A q \in AllParameters : ~ENABLED updateParameters(a, q[1], q[2], q[3], q[4])
        /\ \A n \in AllAddresses :
               (a # owner \/ n = NullAddress) => ~ENABLED transferOwnership(a, n)

\* C20 witness: the store is at its capacity with a top-level record an
\* eviction would take, and an author whose creates are rejected (the
\* profile is deactivated) has a record of its own.
C20_Witness ==
    /\ maxActiveMessages > 0
    /\ totalActiveMessages >= maxActiveMessages
    /\ \E i \in ExistingIds : IsLive(i) /\ IsTopLevel(i)
    /\ \E a \in Addresses :
           /\ ~ProfileMissing(a) /\ ProfileInactive(a)
           /\ activeSenderMessageCount[a] > 0

\* The callers markMessageAsDeleted accepts for record i: its sender and the
\* current owner.
MayDelete(a, i) == messages[i].sender = a \/ a = owner

\* C21: a record's isDeleted flag goes from false to true only in an eviction
\* run or in a markMessageAsDeleted called by the record's sender or by the
\* current owner; for any other caller markMessageAsDeleted reverts with
\* "Not authorized to delete this message" and is no step.
C21_DeleteNeedsAuthority ==
    [][/\ \A i \in Flipped :
              \/ i \in Range(last'.evicted)
              \/ \E a \in Addresses : MayDelete(a, i) /\ markMessageAsDeleted(a, i)
       /\ \A i \in ExistingIds, a \in Addresses :
              ~MayDelete(a, i) =>
                  /\ MarkMessageAsDeletedCheck(a, i) =
                         "Not authorized to delete this message"
                  /\ ~ENABLED markMessageAsDeleted(a, i)]_vars

\* C21 witness: ownership has passed on, a live record of the new owner is
\* out of the other account's reach, one record was deleted by an explicit
\* delete and another by an eviction run.
C21_Witness ==
    /\ owner # Deployer
    /\ \E i \in ExistingIds, a \in Addresses : IsLive(i) /\ ~MayDelete(a, i)
    /\ \E i \in ExistingIds : i # 0 /\ ~IsLive(i) /\ i \notin Range(last.evicted)
    /\ \E i \in ExistingIds : i \in Range(last.evicted)

\* C22: the store has exactly one owner, an account, at every moment; the four
\* parameters change only in an updateParameters called by the current owner;
\* a step that puts a new account in owner is the owner's transferOwnership
\* to that account; and in every state updateParameters is open to the account
\* in owner and reverts with "Only owner can call this function" for every
\* other account, the previous owner after a transfer included.
C22_OwnerAloneSetsParameters ==
    [][/\ owner \in Addresses
       /\ \A a \in Addresses, p \in ProfileParameters \cup RecordsParameters :
              IF a = owner
              THEN ENABLED updateParameters(a, p[1], p[2], p[3], p[4])
              ELSE /\ OnlyOwnerCheck(a) = "Only owner can call this function"
                   /\ ~ENABLED updateParameters(a, p[1], p[2], p[3], p[4])
       /\ paramVars' # paramVars =>
              \E p \in AllParameters : updateParameters(owner, p[1], p[2], p[3], p[4])
       /\ owner' # owner =>
              /\ transferOwnership(owner, owner')
              /\ \A a \in Addresses :
                     OnlyOwnerCheck(a)' =
                         IF a = owner' THEN "ok"
                         ELSE "Only owner can call this function"]_vars

\* C22 witness: ownership has passed to the second account and the
\* parameters are not the constructor's any more.
C22_Witness ==
    /\ owner # Deployer
    /\ paramVars # <<InitMaxMessageLength, InitMessageCooldown, InitMaxReturnCount,
                     InitMaxActiveMessages>>
    /\ totalActiveMessages > 0

\* The fields of a record that are fixed at creation.
Original(m) == <<m.sender, m.content, m.timestamp, m.nickname, m.replyToMessageId>>

\* C23: getMessage succeeds for every assigned id before and after every
\* step and returns the record with the fields it was created with, with
\* isDeleted set once the record is soft-deleted; it reverts for the first
\* unassigned id. getOriginalMessage reverts with "Message does not exist"
\* for an unassigned id and with "Not a reply message" for a record made by
\* postMessage or by a reply to id 0 (both store replyToMessageId 0); for a
\* record made by a reply to p > 0 it returns the record p, soft-deleted or
\* not, and keeps doing so after every later step.
C23_RecordLookups ==
    [][/\ GetMessageCheck(messageCount) = "Message does not exist"
       /\ GetOriginalMessageCheck(messageCount) = "Message does not exist"
       /\ \A i \in ExistingIds :
              /\ GetMessageCheck(i) = "ok" /\ GetMessageCheck(i)' = "ok"
              /\ Original(getMessage(i)') = Original(getMessage(i))
              /\ getMessage(i)'.isDeleted = (getMessage(i).isDeleted \/ i \in Flipped)
              /\ GetOriginalMessageCheck(i)' = GetOriginalMessageCheck(i)
              /\ GetOriginalMessageCheck(i) = "ok" =>
                     /\ getOriginalMessage(i)' = getMessage(messages[i].replyToMessageId)'
                     /\ Original(getOriginalMessage(i)') = Original(getOriginalMessage(i))
       /\ messageCount' = messageCount + 1 =>
              \A n \in {messageCount}, a \in Addresses, c \in AcceptedContents :
                  /\ postMessage(a, c) =>
                         GetOriginalMessageCheck(n)' = "Not a reply message"
                  /\ \A p \in ExistingIds :
                         replyToMessage(a, p, c) =>
                             IF p = 0
                             THEN GetOriginalMessageCheck(n)' = "Not a reply message"
                             ELSE /\ GetOriginalMessageCheck(n)' = "ok"
                                  /\ Original(getOriginalMessage(n)') =
                                         Original(messages[p])
                                  /\ getOriginalMessage(n)'.isDeleted =
                                         (messages[p].isDeleted \/ p \in Flipped)]_vars

\* C23 witness: a live reply whose parent is soft-deleted, next to a record
\* made by a reply to id 0.
C23_Witness ==
    /\ \E i \in ExistingIds :
           /\ IsLive(i) /\ GetOriginalMessageCheck(i) = "ok"
           /\ getOriginalMessage(i).isDeleted
    /\ messageReplies[0] # << >>

\* C24: a step that creates a record is made by an account that, before the
\* step, has a profile with a non-empty nickname and isActive set, and the
\* nickname stored in the record is that profile's nickname at that moment;
\* an account without such a profile has no postMessage or replyToMessage
\* step.
C24_CreateNeedsActiveProfile ==
    [][/\ messageCount' = messageCount + 1 =>
              \E a \in Addresses :
                  /\ messages'[messageCount].sender = a
                  /\ Len(addressToProfile[a].nickname) > 0
                  /\ addressToProfile[a].isActive
                  /\ messages'[messageCount].nickname = addressToProfile[a].nickname
       /\ \A a \in Addresses :
              (ProfileMissing(a) \/ ProfileInactive(a)) =>
                  \A c \in AcceptedContents :
                      /\ ~ENABLED postMessage(a, c)
                      /\ \A p \in ExistingIds : ~ENABLED replyToMessage(a, p, c)]_vars

\* C24 witness: one account wrote under one nickname, renamed itself and
\* wrote again, and is deactivated now; both records keep the nickname of
\* their moment.
C24_Witness ==
    \E i, j \in ExistingIds :
        /\ i < j
        /\ messages[i].sender = messages[j].sender
        /\ messages[i].sender # NullAddress
        /\ messages[i].nickname # messages[j].nickname
        /\ messages[j].nickname = addressToProfile[messages[j].sender].nickname
        /\ ~addressToProfile[messages[j].sender].isActive

\* Arguments tried on the two bounded listings: small ones, one above the
\* constructor's maxReturnCount, and the largest page number a caller can pass.
RequestSizes == 0..(MaxNewMessages + 1) \cup {InitMaxReturnCount + 1}
RequestPages == {0, 1, MaxUint}

\* C25: getLatestMessages(n) reverts, with "Too many messages requested",
\* exactly when n > maxReturnCount, and getMessagesWithPagination(p, s)
\* reverts exactly when s = 0 ("Page size must be greater than 0") or
\* s > maxReturnCount ("Page size too large"), whatever the store holds.
C25_ListingRequiresExact ==
    /\ \A n \in RequestSizes :
           GetLatestMessagesCheck(n) =
               IF n > maxReturnCount THEN "Too many messages requested" ELSE "ok"
    /\ \A p \in RequestPages, s \in RequestSizes :
           GetMessagesWithPaginationCheck(p, s) =
               IF s = 0 THEN "Page size must be greater than 0"
               ELSE IF s > maxReturnCount THEN "Page size too large"
               ELSE "ok"

\* C26: a step that creates a record soft-deletes no record when
\* totalActiveMessages was below maxActiveMessages, and at most one record, a
\* top-level one, when it was at or above it; afterwards totalActiveMessages
\* is what it was or one more.
C26_CreateEvictsAtMostOne ==
    [][messageCount' = messageCount + 1 =>
           /\ totalActiveMessages < maxActiveMessages => Flipped = {}
           /\ Cardinality(Flipped) <= 1
           /\ \A i \in Flipped : IsTopLevel(i)
           /\ totalActiveMessages' = totalActiveMessages + 1 - Cardinality(Flipped)
           /\ totalActiveMessages' \in {totalActiveMessages, totalActiveMessages + 1}]_vars

\* C26 witness: with two top-level records live at capacity 2, the newest
\* record was created by a step that evicted exactly one record.
C26_Witness ==
    /\ maxActiveMessages = 2 /\ totalActiveMessages = 2
    /\ Len(last.evicted) = 1
    /\ messageCount > 3
    /\ IsLive(messageCount - 1)
    /\ \E i \in ExistingIds : i # messageCount - 1 /\ IsLive(i) /\ IsTopLevel(i)

\* The step calls deleteOldestMessages: a create with the store at capacity,
\* or an updateParameters that lowers the capacity below the live total.
RunOnCreate ==
    messageCount' = messageCount + 1 /\ totalActiveMessages >= maxActiveMessages
RunOnUpdate ==
    /\ messageCount' = messageCount
    /\ totalActiveMessages > maxActiveMessages'
    /\ \E p \in AllParameters :
           /\ paramVars' = <<p[1], p[2], p[3], p[4]>>
           /\ updateParameters(owner, p[1], p[2], p[3], p[4])

\* C27 as claimed, for a capacity above 0: every eviction run emits exactly
\* one OldMessagesDeleted, whose count is the number of records the run
\* soft-deleted.
C27_OneEventPerRun ==
    [][(maxActiveMessages' > 0 /\ (RunOnCreate \/ RunOnUpdate)) =>
           last'.pruned = <<Cardinality(Flipped)>>]_vars

\* C27: an eviction run that soft-deletes at least one record emits exactly
\* one OldMessagesDeleted, whose count is the number of records the run
\* turned from live to deleted, also when that is fewer than requested; a
\* run that soft-deletes no record emits none, and neither does a step
\* without a run.
C27_EventCountsEvicted ==
    [][IF RunOnCreate \/ RunOnUpdate
       THEN /\ Flipped = Range(last'.evicted)
            /\ last'.pruned = IF Flipped = {} THEN << >>
                              ELSE <<Cardinality(Flipped)>>
       ELSE last'.pruned = << >>]_vars

\* C27 witness: a lowering of the capacity to 1 asked for two records, could
\* evict only record 1 and reported 1; the live replies 2 and 3 keep the
\* total above the capacity.
C27_Witness ==
    /\ last.pruned = <<1>>
    /\ last.evicted = <<1>>
    /\ maxActiveMessages = 1
    /\ totalActiveMessages = 2
    /\ messageCount = 4
    /\ \A i \in {2, 3} : IsLive(i) /\ ~IsTopLevel(i)

\* C28: replyToMessage reverts with "Original message does not exist" for the
\* unassigned id and for no assigned one; when the parent p is an assigned
\* id, soft-deleted or not, and the caller passes the other requires, the
\* reply is a step, and that step appends the new id to messageReplies[p]
\* and adds one to activeReplyCount[p].
C28_ReplyToDeletedParent ==
    \A a \in Addresses, c \in Contents :
        /\ ReplyToMessageCheck(a, messageCount, c) = "Original message does not exist"
        /\ \A p \in ExistingIds :
               /\ ReplyToMessageCheck(a, p, c) # "Original message does not exist"
               /\ (CreateCheck(a, c) = "ok" /\ messageCount <= MaxId) =>
                      ENABLED (/\ replyToMessage(a, p, c)
                               /\ messageReplies'[p] =
                                      Append(messageReplies[p], messageCount)
                               /\ activeReplyCount'[p] = activeReplyCount[p] + 1)

\* C28 witness: a live reply hangs under a soft-deleted record other than
\* record 0, whose reply counter counts it, and record 0 has a reply too.
C28_Witness ==
    /\ \E i \in ExistingIds :
           LET p == messages[i].replyToMessageId IN
           /\ IsLive(i) /\ p # 0 /\ ~IsLive(p)
           /\ i \in Range(messageReplies[p]) /\ activeReplyCount[p] = 1
    /\ messageReplies[0] # << >>

\* C29: a step that changes a profile or the nickname directory changes no
\* record, index, active counter, cooldown clock or messageCount; an
\* updateAvatar step changes the caller's avatarCode and nothing else, so a
\* deactivated profile stays deactivated; updateAvatar reverts with "Set
\* nickname first", and is no step, for a caller without a nickname, and is
\* open to every caller with one, deactivated or not.
C29_ProfileStepsFrame ==
    [][/\ profileVars' # profileVars =>
              UNCHANGED <<recordVars, indexVars, counterVars, lastMessageTime>>
       /\ \A a \in Addresses, v \in AvatarCodes :
              /\ IF ProfileMissing(a)
                 THEN /\ UpdateAvatarCheck(a) = "Set nickname first"
                      /\ ~ENABLED updateAvatar(a, v)
                 ELSE ENABLED updateAvatar(a, v)
              /\ updateAvatar(a, v) =>
                     /\ addressToProfile' =
                            [addressToProfile EXCEPT ![a].avatarCode = v]
                     /\ addressToProfile'[a].isActive = addressToProfile[a].isActive
                     /\ addressToProfile'[a].nickname = addressToProfile[a].nickname
                     /\ UNCHANGED <<nicknameToAddress, recordVars, indexVars,
                                    counterVars, lastMessageTime, owner, paramVars>>]_vars

\* C29 witness: a deactivated account that has written a live record carries
\* the second avatar code while its former nickname belongs to the other
\* account.
C29_Witness ==
    \E a \in Addresses, i \in ExistingIds :
        /\ ~ProfileMissing(a) /\ ProfileInactive(a)
        /\ addressToProfile[a].avatarCode = <<120>>
        /\ messages[i].sender = a /\ IsLive(i)
        /\ nicknameToAddress[addressToProfile[a].nickname] \notin {a, NullAddress}

\* C30: in every state record 0 exists with sender address(0) and isDeleted
\* set; the active counters count the live records with an id above 0 and
\* address(0) has none; record 0 is in no result of getLatestMessages,
\* getMessagesWithPagination, getMessagesByPeriod or getMessagesBySender; no
\* eviction run selects it; and markMessageAsDeleted(0) reverts for every
\* caller.
C30_SentinelStaysApart ==
    /\ 0 \in ExistingIds
    /\ messages[0].sender = NullAddress
    /\ messages[0].isDeleted
    /\ totalActiveMessages = Cardinality({i \in ExistingIds \ {0} : IsLive(i)})
    /\ \A p \in Periods :
           activeMessageCountByPeriod[p] =
               Cardinality({i \in Range(messageIdsByPeriod[p]) \ {0} : IsLive(i)})
    /\ activeSenderMessageCount[NullAddress] = 0
    /\ senderToMessageIds[NullAddress] = << >>
    /\ \A n \in Counts :
           GetLatestMessagesCheck(n) = "ok" =>
               messages[0] \notin Range(getLatestMessages(n))
    /\ \A p \in 0..MaxId, s \in PageSizes :
           GetMessagesWithPaginationCheck(p, s) = "ok" =>
               messages[0] \notin Range(getMessagesWithPagination(p, s))
    /\ \A p \in Periods :
           GetMessagesByPeriodCheck(p) = "ok" =>
               messages[0] \notin Range(getMessagesByPeriod(p))
    /\ \A a \in AllAddresses : messages[0] \notin Range(getMessagesBySender(a))
    /\ 0 \notin Range(last.evicted)
    /\ \A a \in AllAddresses :
           /\ MarkMessageAsDeletedCheck(a, 0) \in
                  {"Not authorized to delete this message", "Message already deleted"}
           /\ ~ENABLED markMessageAsDeleted(a, 0)

\* C30 witness: an eviction run has just passed over record 0 and taken
\* record 1, which shares period 0 with it; a later record is live.
C30_Witness ==
    /\ last.evicted = <<1>>
    /\ Range(messageIdsByPeriod[0]) = {0, 1}
    /\ \E i \in ExistingIds : IsLive(i)
    /\ totalActiveMessages >= maxActiveMessages

\* How often id i occurs in a sequence of ids, and whether one sequence
\* starts another.
Occurrences(seq, i) == Cardinality({k \in 1..Len(seq) : seq[k] = i})
IsPrefix(s, t) == Len(s) <= Len(t) /\ \A k \in 1..Len(s) : t[k] = s[k]

\* C31: every record id i occurs once in messageIdsByPeriod[i / PERIOD_SIZE]
\* and in no other period's index, before and after every step;
\* periodExists[b] holds exactly when b is in periods, exactly when
\* messageIdsByPeriod[b] is not empty; periods has no duplicates; a period
\* that exists keeps existing, and when its active counter is 0
\* getMessagesByPeriod passes its require and returns an empty array.
C31_PeriodIndex ==
    [][/\ \A i \in ExistingIds, b \in Periods :
              /\ Occurrences(messageIdsByPeriod[b], i) =
                     IF b = i \div PERIOD_SIZE THEN 1 ELSE 0
              /\ Occurrences(messageIdsByPeriod'[b], i) =
                     IF b = i \div PERIOD_SIZE THEN 1 ELSE 0
       /\ \A b \in Periods :
              /\ periodExists[b] <=> b \in Range(periods)
              /\ periodExists[b] <=> messageIdsByPeriod[b] # << >>
              /\ Occurrences(periods, b) <= 1
              /\ periodExists[b] => periodExists'[b]
              /\ (periodExists[b] /\ activeMessageCountByPeriod[b] = 0) =>
                     /\ GetMessagesByPeriodCheck(b) = "ok"
                     /\ getMessagesByPeriod(b) = << >>]_vars

\* C31 witness: the second period exists, holds a record, and has no live
\* record left, while the first period has one.
C31_Witness ==
    /\ periods = <<0, 1>>
    /\ messageIdsByPeriod[1] # << >>
    /\ activeMessageCountByPeriod[1] = 0
    /\ activeMessageCountByPeriod[0] > 0

\* C32: in every step chronologicalMessageIds, each messageIdsByPeriod[b],
\* each senderToMessageIds[a] and each messageReplies[p] of the earlier state
\* is a prefix of the same sequence in the later state, so deletes and
\* evictions change no index; chronologicalMessageIds holds the ids
\* 0..messageCount-1 once each in increasing order; and every id above 0
\* occurs once in its sender's index and in no other sender's.
C32_IndexesAppendOnly ==
    [][/\ IsPrefix(chronologicalMessageIds, chronologicalMessageIds')
       /\ \A b \in Periods : IsPrefix(messageIdsByPeriod[b], messageIdsByPeriod'[b])
       /\ \A a \in AllAddresses : IsPrefix(senderToMessageIds[a], senderToMessageIds'[a])
       /\ \A p \in ExistingIds : IsPrefix(messageReplies[p], messageReplies'[p])
       /\ messageCount' = messageCount => UNCHANGED indexVars
       /\ chronologicalMessageIds = [k \in 1..messageCount |-> k - 1]
       /\ chronologicalMessageIds' = [k \in 1..messageCount' |-> k - 1]
       /\ \A i \in 1..(messageCount' - 1), a \in AllAddresses :
              Occurrences(senderToMessageIds'[a], i) =
                  IF a = messages'[i].sender THEN 1 ELSE 0]_vars

\* C32 witness: of three records one was soft-deleted by an explicit delete
\* and one by the last eviction run, a reply hangs under a soft-deleted
\* parent, and the chronological index still lists every id.
C32_Witness ==
    /\ messageCount = 4
    /\ last.evicted # << >>
    /\ \E i \in {1, 2, 3} : ~IsLive(i) /\ i \notin Range(last.evicted)
    /\ chronologicalMessageIds = <<0, 1, 2, 3>>
    /\ \E i \in {1, 2, 3} :
           LET p == messages[i].replyToMessageId IN
           p # 0 /\ ~IsLive(p) /\ i \in Range(messageReplies[p])

\* C33: an eviction run reads every entry of chronologicalMessageIds at most
\* once and evicts no more than it was asked to, and when updateParameters
\* lowers the capacity below the live total the run reads no more entries
\* than the number of records it has to evict.
C33_EvictionWorkBounded ==
    [][/\ RunOnCreate =>
              /\ EntriesScanned(1) <= Len(chronologicalMessageIds) - 1
              /\ Cardinality(Flipped) <= 1
       /\ RunOnUpdate =>
              \A n \in {totalActiveMessages - maxActiveMessages'} :
                  /\ EntriesScanned(n) <= Len(chronologicalMessageIds) - 1
                  /\ Cardinality(Flipped) <= n
                  /\ EntriesScanned(n) <= n]_vars

\* The live records with replyToMessageId 0.
LiveTopLevel == {i \in ExistingIds : IsLive(i) /\ IsTopLevel(i)}

\* C35: while maxActiveMessages is at least 1, the number of live top-level
\* records is at most maxActiveMessages, also where live replies have taken
\* totalActiveMessages above it.
C35_TopLevelWithinCapacity ==
    maxActiveMessages >= 1 => Cardinality(LiveTopLevel) <= maxActiveMessages

\* C35 witness: live replies hold totalActiveMessages above the capacity
\* while one top-level record is live and fills a capacity of 1.
C35_Witness ==
    /\ maxActiveMessages = 1
    /\ totalActiveMessages > maxActiveMessages
    /\ Cardinality(LiveTopLevel) = 1

\* C36: an id is listed in messageReplies[p] exactly when its record's
\* replyToMessageId is not 0 and equals p, so no top-level record is listed
\* as a reply.
C36_ReplyIndexMatchesParent ==
    \A i, p \in ExistingIds :
        i \in Range(messageReplies[p]) <=>
            (messages[i].replyToMessageId # 0 /\ messages[i].replyToMessageId = p)

\* C37: an account that has never created a record, has an active profile
\* and sends an accepted body (to an existing parent, for a reply) is not
\* turned away with "Please wait before posting again", whatever
\* block.timestamp and messageCooldown are.
C37_FirstCreateNotDelayed ==
    \A a \in Addresses, c \in AcceptedContents :
        (/\ senderToMessageIds[a] = << >>
         /\ ~ProfileMissing(a) /\ ~ProfileInactive(a)
         /\ Len(c) <= maxMessageLength) =>
            /\ PostMessageCheck(a, c) # "Please wait before posting again"
            /\ \A p \in ExistingIds :
                   ReplyToMessageCheck(a, p, c) # "Please wait before posting again"

\* The step creates a reply to the live record p (p > 0, read from the new
\* record's replyToMessageId).
RepliesToLive(p) ==
    /\ messageCount' = messageCount + 1
    /\ p # 0 /\ IsLive(p)
    /\ messages'[messageCount].replyToMessageId = p

\* C38 as claimed: a reply to a live record leaves that record live.
C38_ReplySparesParent ==
    [][\A p \in ExistingIds : RepliesToLive(p) => ~messages'[p].isDeleted]_vars

\* C38: a reply to a live record p leaves p live unless the store is at or
\* above capacity and p is the oldest live top-level record; in that case
\* the eviction run of the reply itself soft-deletes p.
C38_ReplyEvictsOldestParent ==
    [][\A p \in ExistingIds :
           RepliesToLive(p) =>
               (messages'[p].isDeleted <=>
                    /\ totalActiveMessages >= maxActiveMessages
                    /\ IsTopLevel(p)
                    /\ \A j \in LiveTopLevel : p <= j)]_vars

\* C38 witness: the newest record is a live reply to the record that the
\* last eviction run took, in a store filled to its capacity.
C38_Witness ==
    \E p \in ExistingIds \ {0} :
        /\ last.evicted = <<p>>
        /\ messages[messageCount - 1].replyToMessageId = p
        /\ IsLive(messageCount - 1)
        /\ totalActiveMessages = maxActiveMessages

\* The key prefixes of the latest-N and pagination queries.
ListPrefixes ==
    {<<"latest">>, <<"feed">>, <<"feed", "with", "replies">>, <<"page">>,
     <<"all", "messages">>}
IsListKey(key) == \E prefix \in ListPrefixes : startsWith(key, prefix)

\* C34: when the server has handled a MessageSent, MessageDeleted or
\* OldMessagesDeleted notification, its cache holds no entry under a key
\* latest-*, feed-*, feed-with-replies-*, page-* or all-messages-*, and
\* after MessageDeleted(id) none under replies-<id> or original-<id>.
C34_ListCachesInvalidated ==
    [][(/\ handled' = handled + 1
        /\ log[handled + 1].name \in {"MessageSent", "MessageDeleted", "OldMessagesDeleted"})
       => /\ \A key \in DOMAIN cache' : ~IsListKey(key)
          /\ log[handled + 1].name = "MessageDeleted"
                => \A key \in DOMAIN cache' :
                      /\ key # <<"replies", ToString(log[handled + 1].messageId)>>
                      /\ key # <<"original", ToString(log[handled + 1].messageId)>>]_vars

\* The requests of the feed and latest routes.
FeedRequests == {req \in ServerRequests : req.route \in {"feed", "latest"}}

\* C39: when a feed or latest request has finished, its cache entry was not
\* read from the contract before a notification that the server has handled
\* and whose handler deletes that key.
C39_NoStaleWriteBack ==
    \A req \in FeedRequests :
        (requests[req].pc = "idle" /\ cacheKey(req) \in DOMAIN cache)
            => \A k \in 1..handled :
                   Deletes(log[k], cacheKey(req)) => cache[cacheKey(req)].asOf >= k

====
